---------------------------- MODULE Spec2Model ----------------------------
(***************************************************************************)
(* Recipe budget allocation of src/lib/ai.ts: the local allocator          *)
(* simpleOptimize, the advisory allocator generateRecipeBuild that wraps   *)
(* it around one call to an external text-generation service, and the      *)
(* module-level client handle both share with the rest of the module.      *)
(*                                                                         *)
(* Numbers are exact rationals <<n, d>> in lowest terms with d > 0; the    *)
(* JavaScript value NaN is <<0, 0>>.  An optional JavaScript value is a    *)
(* sequence of length at most one: <<>> is undefined, <<v>> is v.          *)
(***************************************************************************)
EXTENDS Integers, Sequences, FiniteSets, TLC

(***************************************************************************)
(* Bounds of the model.                                                    *)
(***************************************************************************)
\* longest ingredient list handed to simpleOptimize in AllocSpec
MaxItems == 2
\* concurrent invocations of generateRecipeBuild in Spec
NumCalls == 2

(***************************************************************************)
(* JavaScript values.                                                      *)
(***************************************************************************)
None == <<>>
Some(v) == <<v>>
\* a JavaScript number that is not a number
NaN == <<0, 0>>

Abs(n) == IF n < 0 THEN -n ELSE n

RECURSIVE GCD(_, _)
GCD(a, b) == IF b = 0 THEN a ELSE GCD(b, a % b)

\* the rational n/d in lowest terms, d # 0
Norm(n, d) ==
  LET g == GCD(Abs(n), Abs(d))
      s == IF d < 0 THEN -1 ELSE 1
  IN  <<(s * n) \div g, (s * d) \div g>>

Num(n) == <<n, 1>>
IsNaN(x) == x[2] = 0

\* x + y
RAdd(x, y) ==
  IF IsNaN(x) \/ IsNaN(y) THEN NaN
  ELSE Norm(x[1] * y[2] + y[1] * x[2], x[2] * y[2])

\* x - y
RSub(x, y) ==
  IF IsNaN(x) \/ IsNaN(y) THEN NaN
  ELSE Norm(x[1] * y[2] - y[1] * x[2], x[2] * y[2])

\* x * y
RMul(x, y) ==
  IF IsNaN(x) \/ IsNaN(y) THEN NaN
  ELSE Norm(x[1] * y[1], x[2] * y[2])

\* x / y; the code divides only behind a guard that makes y non-zero
RDiv(x, y) ==
  IF IsNaN(x) \/ IsNaN(y) \/ y[1] = 0 THEN NaN
  ELSE Norm(x[1] * y[2], x[2] * y[1])

\* x > y, false when either side is NaN
RGt(x, y) ==
  /\ ~IsNaN(x)
  /\ ~IsNaN(y)
  /\ x[1] * y[2] > y[1] * x[2]

\* ToNumber of an optional number: undefined converts to NaN
ToNumber(o) == IF o = None THEN NaN ELSE o[1]

\* ToBoolean of an optional number: undefined, 0 and NaN are falsy
Truthy(o) == o # None /\ o[1][1] # 0

\* o ?? dflt
Coalesce(o, dflt) == IF o = None THEN dflt ELSE o[1]

(***************************************************************************)
(* simpleOptimize.  mem is the memory the call can reach: the caller's     *)
(* list and the function's locals.  unlocked holds references to the       *)
(* caller's ingredient records, modelled as their indices in the list.     *)
(***************************************************************************)
\* const budget = salesPrice * (targetPct / 100)
Budget(salesPrice, targetPct) == RMul(salesPrice, RDiv(targetPct, Num(100)))

\* the locals at lines 352-356
EnterOptimize(salesPrice, targetPct, items) ==
  [items           |-> items,
   budget          |-> Budget(salesPrice, targetPct),
   remainingBudget |-> Budget(salesPrice, targetPct),
   totalCost       |-> Num(0),
   results         |-> <<>>,
   unlocked        |-> <<>>]

\* TakesLockedBranch that tests the presence of lockedQty
TakesLockedBranchByPresence(ing) == ing.lockedQty # None

\* the condition that sends an ingredient down the locked branch
TakesLockedBranch(ing) == Truthy(ing.lockedQty) /\ Truthy(Some(ing.averageUnitCost))

\* LockedIter without `totalCost += cost` in the locked branch
LockedIterNoTotal(mem, i) ==
  LET ing == mem.items[i] IN
  IF TakesLockedBranch(ing)
  THEN LET cost == RMul(ing.lockedQty[1], ing.averageUnitCost) IN
       [mem EXCEPT
          !.results = Append(@, [name |-> ing.name, quantity |-> ing.lockedQty[1], cost |-> cost]),
          !.remainingBudget = RSub(@, cost)]
  ELSE [mem EXCEPT !.unlocked = Append(@, i)]

\* LockedIter without its else: a locked ingredient is pushed to unlocked too
LockedIterNoElse(mem, i) ==
  LET ing == mem.items[i]
      m == [mem EXCEPT !.unlocked = Append(@, i)]
  IN
  IF TakesLockedBranch(ing)
  THEN LET cost == RMul(ing.lockedQty[1], ing.averageUnitCost) IN
       [m EXCEPT
          !.results = Append(@, [name |-> ing.name, quantity |-> ing.lockedQty[1], cost |-> cost]),
          !.totalCost = RAdd(@, cost),
          !.remainingBudget = RSub(@, cost)]
  ELSE m

\* LockedIter that defaults a missing weight in place: ing.weight = ing.weight ?? 1
LockedIterWritesWeight(mem, i) ==
  LET ing == mem.items[i] IN
  IF TakesLockedBranch(ing)
  THEN LET cost == RMul(ing.lockedQty[1], ing.averageUnitCost) IN
       [mem EXCEPT
          !.results = Append(@, [name |-> ing.name, quantity |-> ing.lockedQty[1], cost |-> cost]),
          !.totalCost = RAdd(@, cost),
          !.remainingBudget = RSub(@, cost)]
  ELSE [mem EXCEPT !.unlocked = Append(@, i),
                   !.items[i].weight = Some(Coalesce(@, Num(1)))]

\* LockedIter that puts an unlocked ingredient in front of the others
LockedIterPrepends(mem, i) ==
  LET ing == mem.items[i] IN
  IF TakesLockedBranch(ing)
  THEN LET cost == RMul(ing.lockedQty[1], ing.averageUnitCost) IN
       [mem EXCEPT
          !.results = Append(@, [name |-> ing.name, quantity |-> ing.lockedQty[1], cost |-> cost]),
          !.totalCost = RAdd(@, cost),
          !.remainingBudget = RSub(@, cost)]
  ELSE [mem EXCEPT !.unlocked = <<i>> \o @]

\* LockedIter whose cost is the unit cost, not quantity * unit cost
LockedIterCostIsUnitCost(mem, i) ==
  LET ing == mem.items[i] IN
  IF TakesLockedBranch(ing)
  THEN LET cost == ing.averageUnitCost IN
       [mem EXCEPT
          !.results = Append(@, [name |-> ing.name, quantity |-> ing.lockedQty[1], cost |-> cost]),
          !.totalCost = RAdd(@, cost),
          !.remainingBudget = RSub(@, cost)]
  ELSE [mem EXCEPT !.unlocked = Append(@, i)]

\* one call of the first forEach callback, on items[i]
LockedIter(mem, i) ==
  LET ing == mem.items[i] IN
  IF TakesLockedBranch(ing)
  THEN LET cost == RMul(ing.lockedQty[1], ing.averageUnitCost) IN
       [mem EXCEPT
          !.results = Append(@, [name |-> ing.name, quantity |-> ing.lockedQty[1], cost |-> cost]),
          !.totalCost = RAdd(@, cost),
          !.remainingBudget = RSub(@, cost)]
  ELSE [mem EXCEPT !.unlocked = Append(@, i)]

\* items.forEach over the indices i..n of the list as it was when the loop began
RECURSIVE LockedPass(_, _, _)
LockedPass(mem, i, n) ==
  IF i > n THEN mem
  ELSE IF i > Len(mem.items) THEN LockedPass(mem, i + 1, n)
  ELSE LockedPass(LockedIter(mem, i), i + 1, n)

\* a reduce that does not accumulate: the weight of the last unlocked ingredient
TotalWeightLastOnly(mem, k) ==
  IF k = 0 THEN Num(0) ELSE Coalesce(mem.items[mem.unlocked[k]].weight, Num(0))

\* unlocked.reduce((sum, i) => sum + (i.weight ?? 0), 0)
RECURSIVE TotalWeight(_, _)
TotalWeight(mem, k) ==
  IF k = 0 THEN Num(0)
  ELSE RAdd(TotalWeight(mem, k - 1), Coalesce(mem.items[mem.unlocked[k]].weight, Num(0)))

\* Share that ignores the weights
ShareIgnoresWeights(mem, totalWeight, ing) == RDiv(Num(1), Num(Len(mem.unlocked)))

\* Share whose even split counts every ingredient of the list
ShareOverAllItems(mem, totalWeight, ing) ==
  IF RGt(totalWeight, Num(0))
  THEN RDiv(Coalesce(ing.weight, Num(0)), totalWeight)
  ELSE RDiv(Num(1), Num(Len(mem.items)))

\* the share of the remaining budget an unlocked ingredient gets
Share(mem, totalWeight, ing) ==
  IF RGt(totalWeight, Num(0))
  THEN RDiv(Coalesce(ing.weight, Num(0)), totalWeight)
  ELSE RDiv(Num(1), Num(Len(mem.unlocked)))

\* UnlockedIter that derives the cost from the quantity
UnlockedIterCostFromQty(mem, totalWeight, k) ==
  LET ing == mem.items[mem.unlocked[k]]
      allocation == RMul(mem.remainingBudget, Share(mem, totalWeight, ing))
      qty == IF Truthy(Some(ing.averageUnitCost))
             THEN RDiv(allocation, ing.averageUnitCost)
             ELSE Num(0)
      cost == RMul(qty, ing.averageUnitCost)
  IN  [mem EXCEPT
         !.results = Append(@, [name |-> ing.name, quantity |-> qty, cost |-> cost]),
         !.totalCost = RAdd(@, cost)]

\* one call of the second forEach callback, on unlocked[k]
UnlockedIter(mem, totalWeight, k) ==
  LET ing == mem.items[mem.unlocked[k]]
      allocation == RMul(mem.remainingBudget, Share(mem, totalWeight, ing))
      qty == IF Truthy(Some(ing.averageUnitCost))
             THEN RDiv(allocation, ing.averageUnitCost)
             ELSE Num(0)
  IN  [mem EXCEPT
         !.results = Append(@, [name |-> ing.name, quantity |-> qty, cost |-> allocation]),
         !.totalCost = RAdd(@, allocation)]

RECURSIVE UnlockedPass(_, _, _)
UnlockedPass(mem, totalWeight, k) ==
  IF k > Len(mem.unlocked) THEN mem
  ELSE UnlockedPass(UnlockedIter(mem, totalWeight, k), totalWeight, k + 1)

\* the memory when simpleOptimize reaches its return statement
RunOptimize(salesPrice, targetPct, items) ==
  LET m0 == EnterOptimize(salesPrice, targetPct, items)
      m1 == LockedPass(m0, 1, Len(items))
      tw == TotalWeight(m1, Len(m1.unlocked))
  IN  UnlockedPass(m1, tw, 1)

\* (totalCost / salesPrice) * 100
CostPercentage(totalCost, salesPrice) == RMul(RDiv(totalCost, salesPrice), Num(100))

\* OptimizeReturn that reports a negative remaining budget as an error
OptimizeReturnRejectsNegative(mem, salesPrice) ==
  IF RGt(Num(0), mem.remainingBudget)
  THEN [ingredients    |-> None,
        totalCost      |-> None,
        costPercentage |-> NaN,
        overBudget     |-> FALSE]
  ELSE [ingredients    |-> Some(mem.results),
        totalCost      |-> Some(mem.totalCost),
        costPercentage |-> CostPercentage(mem.totalCost, salesPrice),
        overBudget     |-> RGt(mem.totalCost, mem.budget)]

\* the object built by the return statement of simpleOptimize
OptimizeReturn(mem, salesPrice) ==
  [ingredients    |-> Some(mem.results),
   totalCost      |-> Some(mem.totalCost),
   costPercentage |-> CostPercentage(mem.totalCost, salesPrice),
   overBudget     |-> RGt(mem.totalCost, mem.budget)]

simpleOptimize(salesPrice, targetPct, items) ==
  OptimizeReturn(RunOptimize(salesPrice, targetPct, items), salesPrice)


(***************************************************************************)
(* getOpenAIClient.  handle is the module-level `openai`: None, or Some(k) *)
(* for the k-th client constructed by this process.                        *)
(***************************************************************************)
\* getOpenAIClient without the early return on a missing API key
getOpenAIClientNoKeyCheck(handle, built, browser, key, ctorThrows) ==
  IF browser THEN [client |-> None, handle |-> handle, built |-> built]
  ELSE IF handle = None
  THEN IF ctorThrows THEN [client |-> None, handle |-> handle, built |-> built]
       ELSE [client |-> Some(built + 1), handle |-> Some(built + 1), built |-> built + 1]
  ELSE [client |-> handle, handle |-> handle, built |-> built]

\* a new client on every call with a key
getOpenAIClientAlwaysBuilds(handle, built, browser, key, ctorThrows) ==
  IF browser THEN [client |-> None, handle |-> handle, built |-> built]
  ELSE IF ~key THEN [client |-> None, handle |-> handle, built |-> built]
  ELSE IF ctorThrows THEN [client |-> None, handle |-> handle, built |-> built]
  ELSE [client |-> Some(built + 1), handle |-> Some(built + 1), built |-> built + 1]

getOpenAIClient(handle, built, browser, key, ctorThrows) ==
  IF browser THEN [client |-> None, handle |-> handle, built |-> built]
  ELSE IF handle = None
  THEN IF ~key THEN [client |-> None, handle |-> handle, built |-> built]
       ELSE IF ctorThrows THEN [client |-> None, handle |-> handle, built |-> built]
       ELSE [client |-> Some(built + 1), handle |-> Some(built + 1), built |-> built + 1]
  ELSE [client |-> handle, handle |-> handle, built |-> built]

(***************************************************************************)
(* The external service's answers.  A text is a string; String.trim and    *)
(* JSON.parse are given on the texts the model lets the service send.      *)
(***************************************************************************)
TextBlank == "   "
TextProse == "Here is the optimized recipe."
TextNull == "null"
TextNumber == " 42 "
TextArray == "[{\"name\":\"Chicken\",\"quantity\":1,\"cost\":2}]"
TextNoIngredients == "{\"totalCost\":2}"
TextNoTotal == "{\"ingredients\":[{\"name\":\"Chicken\",\"quantity\":1,\"cost\":2}]}"
TextComplete == "{\"ingredients\":[{\"name\":\"Chicken\",\"quantity\":1,\"cost\":2}],\"totalCost\":2}"
TextOver == "{\"ingredients\":[{\"name\":\"Chicken\",\"quantity\":5,\"cost\":5}],\"totalCost\":5,\"costPercentage\":12,\"overBudget\":false}"

Texts ==
  {TextBlank, TextProse, TextNull, TextNumber, TextArray,
   TextNoIngredients, TextNoTotal, TextComplete, TextOver}

\* text.trim()
Trim(text) ==
  CASE text = TextBlank -> ""
    [] text = TextNumber -> "42"
    [] OTHER -> text

JsonOther(type) ==
  [type |-> type, ingredients |-> None, totalCost |-> None, costPercentage |-> None]
JsonObject(ingredients, totalCost, costPercentage) ==
  [type |-> "object", ingredients |-> ingredients, totalCost |-> totalCost,
   costPercentage |-> costPercentage]
Entry(name, quantity, cost) ==
  [name |-> name, quantity |-> Num(quantity), cost |-> Num(cost)]

\* JSON.parse(text): ok = FALSE is a SyntaxError
JsonParse(text) ==
  CASE text = "null" -> [ok |-> TRUE, value |-> JsonOther("null")]
    [] text = "42" -> [ok |-> TRUE, value |-> JsonOther("number")]
    [] text = TextArray -> [ok |-> TRUE, value |-> JsonOther("array")]
    [] text = TextNoIngredients ->
         [ok |-> TRUE, value |-> JsonObject(None, Some(Num(2)), None)]
    [] text = TextNoTotal ->
         [ok |-> TRUE, value |-> JsonObject(Some(<<Entry("Chicken", 1, 2)>>), None, None)]
    [] text = TextComplete ->
         [ok |-> TRUE,
          value |-> JsonObject(Some(<<Entry("Chicken", 1, 2)>>), Some(Num(2)), None)]
    [] text = TextOver ->
         [ok |-> TRUE,
          value |-> JsonObject(Some(<<Entry("Chicken", 5, 5)>>), Some(Num(5)), Some(Num(12)))]
    [] OTHER -> [ok |-> FALSE, value |-> JsonOther("null")]

\* what the awaited create() call settles with
Rejected == [kind |-> "rejected", choices |-> <<>>]
Resolved(choices) == [kind |-> "resolved", choices |-> choices]
Choice(message) == [message |-> message]
Message(content) == [content |-> content]

Outcomes ==
  {Rejected, Resolved(<<>>), Resolved(<<Choice(Some(Message(None)))>>)}
  \cup {Resolved(<<Choice(Some(Message(Some(t))))>>) : t \in Texts}

\* response.choices[0].message?.content || '' ; threw = TRUE is the TypeError
\* of reading .message of undefined
ContentText(response) ==
  IF Len(response.choices) = 0 THEN [threw |-> TRUE, text |-> ""]
  ELSE LET message == response.choices[1].message IN
       IF message = None \/ message[1].content = None
       THEN [threw |-> FALSE, text |-> ""]
       ELSE [threw |-> FALSE, text |-> message[1].content[1]]

\* BuildReturn that keeps the percentage the service sent, when it sent one
BuildReturnTrustsPct(json, salesPrice, budget) ==
  [ingredients    |-> json.ingredients,
   totalCost      |-> json.totalCost,
   costPercentage |-> Coalesce(json.costPercentage,
                               CostPercentage(ToNumber(json.totalCost), salesPrice)),
   overBudget     |-> RGt(ToNumber(json.totalCost), budget)]

\* BuildReturn that compares the total with the sale price, not with the budget
BuildReturnVsPrice(json, salesPrice, budget) ==
  [ingredients    |-> json.ingredients,
   totalCost      |-> json.totalCost,
   costPercentage |-> CostPercentage(ToNumber(json.totalCost), salesPrice),
   overBudget     |-> RGt(ToNumber(json.totalCost), salesPrice)]

\* the object built by the return statement inside the try block
BuildReturn(json, salesPrice, budget) ==
  [ingredients    |-> json.ingredients,
   totalCost      |-> json.totalCost,
   costPercentage |-> CostPercentage(ToNumber(json.totalCost), salesPrice),
   overBudget     |-> RGt(ToNumber(json.totalCost), budget)]

\* the try block from the point where the awaited call settles
TryBlock(outcome, salesPrice, budget) ==
  LET failed == [threw |-> TRUE, value |-> None] IN
  IF outcome.kind = "rejected" THEN failed
  ELSE LET c == ContentText(outcome) IN
       IF c.threw THEN failed
       ELSE LET parsed == JsonParse(Trim(c.text)) IN
            IF ~parsed.ok THEN failed
            ELSE IF parsed.value.type = "null" THEN failed
            ELSE [threw |-> FALSE,
                  value |-> Some(BuildReturn(parsed.value, salesPrice, budget))]

\* AfterAwait whose catch block returns an empty recipe instead of delegating
AfterAwaitEmptyOnCatch(outcome, salesPrice, targetPct, items) ==
  LET t == TryBlock(outcome, salesPrice, Budget(salesPrice, targetPct)) IN
  IF t.threw
  THEN [ingredients |-> Some(<<>>), totalCost |-> Some(Num(0)),
        costPercentage |-> Num(0), overBudget |-> FALSE]
  ELSE t.value[1]

\* what generateRecipeBuild returns once the awaited call has settled
AfterAwait(outcome, salesPrice, targetPct, items) ==
  LET t == TryBlock(outcome, salesPrice, Budget(salesPrice, targetPct)) IN
  IF t.threw THEN simpleOptimize(salesPrice, targetPct, items) ELSE t.value[1]

(***************************************************************************)
(* Inputs.                                                                 *)
(***************************************************************************)
Ingredient(name, averageUnitCost, weight, lockedQty) ==
  [name |-> name, averageUnitCost |-> Num(averageUnitCost),
   weight |-> weight, lockedQty |-> lockedQty]

Optional(S) == {None} \cup {Some(Num(v)) : v \in S}

UnitCosts == {0, 2}
Weights == {0, 1, 3}
LockedQtys == {0, 2}
IngredientNames == <<"Chicken", "Cheese", "Lettuce", "Tomato">>

\* sale price and target percentage of a request
PricePoints == {<<10, 30>>, <<20, 25>>}

ItemFields == [averageUnitCost : {Num(c) : c \in UnitCosts},
               weight : Optional(Weights), lockedQty : Optional(LockedQtys)]

\* the names of a list of n ingredients: pairwise distinct, or all the same
Namings(n) ==
  {[i \in 1..n |-> IngredientNames[i]], [i \in 1..n |-> IngredientNames[1]]}

\* the list of n ingredients with names nm and fields f
ItemList(n, nm, f) ==
  [i \in 1..n |-> [name |-> nm[i], averageUnitCost |-> f[i].averageUnitCost,
                   weight |-> f[i].weight, lockedQty |-> f[i].lockedQty]]

\* requests handed to generateRecipeBuild
BuildRequests ==
  {[salesPrice |-> Num(10), targetPct |-> Num(30),
    items |-> <<Ingredient("Chicken", 1, Some(Num(5)), Some(Num(2))),
                Ingredient("Cheese", 1, Some(Num(3)), None),
                Ingredient("Lettuce", 0, Some(Num(2)), None)>>],
   [salesPrice |-> Num(10), targetPct |-> Num(30),
    items |-> <<Ingredient("Chicken", 2, None, Some(Num(2)))>>],
   [salesPrice |-> Num(20), targetPct |-> Num(25),
    items |-> <<Ingredient("Chicken", 2, None, Some(Num(2))),
                Ingredient("Cheese", 0, None, Some(Num(2)))>>]}

Calls == 1..NumCalls

\* Scenario A: price 10, target 30, weights 0.5/0.3/0.2 at unit cost 1
ScenarioA ==
  <<Ingredient("Chicken", 1, Some(RDiv(Num(1), Num(2))), None),
    Ingredient("Cheese", 1, Some(RDiv(Num(3), Num(10))), None),
    Ingredient("Lettuce", 1, Some(RDiv(Num(1), Num(5))), None)>>

\* Scenario B: the same with the first ingredient locked at quantity 2
ScenarioB ==
  <<Ingredient("Chicken", 1, Some(RDiv(Num(1), Num(2))), Some(Num(2))),
    Ingredient("Cheese", 1, Some(RDiv(Num(3), Num(10))), None),
    Ingredient("Lettuce", 1, Some(RDiv(Num(1), Num(5))), None)>>

\* the ingredient lists of the specification's scenarios
Scenarios == {ScenarioA, ScenarioB}

(***************************************************************************)
(* State.                                                                  *)
(***************************************************************************)
VARIABLES
  openai,     \* the module-level client handle
  built,      \* how many clients this process has constructed
  isBrowser,  \* typeof window !== 'undefined'
  apiKey,     \* process.env.OPENAI_API_KEY is set
  pc,         \* where each invocation of generateRecipeBuild stands
  params,     \* the arguments of each running invocation
  issued,     \* how many times each invocation called the external service
  settled,    \* what the awaited call of each invocation settled with
  returned,   \* what each invocation returned
  items,      \* a caller's ingredient list, handed to simpleOptimize
  seen,       \* per price point, the last result of simpleOptimize on items
  repeated,   \* some call of simpleOptimize repeated an earlier one
  route,      \* the optimize-recipe request in progress
  ins,        \* the invocation of getAiInsights in progress
  csv         \* the invocation of analyzeCsvData in progress

buildVars == <<openai, built, isBrowser, apiKey, pc, params, issued, settled, returned>>
allocVars == <<items, seen, repeated>>
libVars == <<ins, csv>>
vars == <<openai, built, isBrowser, apiKey, pc, params, issued, settled, returned,
          items, seen, repeated, route, ins, csv>>

\* getAiInsights is not running
InsIdle == [pc |-> "idle", data |-> None, issued |-> 0, settled |-> None, result |-> None]

\* analyzeCsvData is not running
CsvIdle ==
  [pc |-> "idle", client |-> None, parsed |-> None, issued |-> 0, settled |-> None,
   result |-> None]

\* no request has been posted
RouteIdle ==
  [pc |-> "idle", body |-> None, req |-> None, items |-> <<>>, lookups |-> 0,
   response |-> None]

BuildInit ==
  /\ openai = None
  /\ built = 0
  /\ pc = [c \in Calls |-> "idle"]
  /\ params = [c \in Calls |-> None]
  /\ issued = [c \in Calls |-> 0]
  /\ settled = [c \in Calls |-> None]
  /\ returned = [c \in Calls |-> None]

(***************************************************************************)
(* generateRecipeBuild: one action up to the await, one from it.           *)
(***************************************************************************)
InvokeWith(c, rq) ==
  /\ pc[c] = "idle"
  /\ \E ctorThrows \in BOOLEAN :
       LET g == getOpenAIClient(openai, built, isBrowser, apiKey, ctorThrows) IN
       /\ openai' = g.handle
       /\ built' = g.built
       /\ params' = [params EXCEPT ![c] = Some(rq)]
       /\ IF g.client = None
          THEN /\ pc' = [pc EXCEPT ![c] = "done"]
               /\ returned' = [returned EXCEPT
                    ![c] = Some(simpleOptimize(rq.salesPrice, rq.targetPct, rq.items))]
               /\ UNCHANGED issued
          ELSE /\ pc' = [pc EXCEPT ![c] = "awaiting"]
               /\ issued' = [issued EXCEPT ![c] = @ + 1]
               /\ UNCHANGED returned
  /\ UNCHANGED <<isBrowser, apiKey, settled, allocVars, libVars>>

\* a caller other than the endpoint invokes generateRecipeBuild
Invoke(c) ==
  /\ \E rq \in BuildRequests : InvokeWith(c, rq)
  /\ UNCHANGED route

\* Settle that calls the service again when the call rejected
SettleRetries(c) ==
  /\ pc[c] = "awaiting"
  /\ \E outcome \in Outcomes :
       LET rq == params[c][1] IN
       /\ settled' = [settled EXCEPT ![c] = Some(outcome)]
       /\ IF outcome.kind = "rejected"
          THEN /\ issued' = [issued EXCEPT ![c] = @ + 1]
               /\ UNCHANGED <<pc, returned>>
          ELSE /\ pc' = [pc EXCEPT ![c] = "done"]
               /\ returned' = [returned EXCEPT
                    ![c] = Some(AfterAwait(outcome, rq.salesPrice, rq.targetPct, rq.items))]
               /\ UNCHANGED issued
  /\ UNCHANGED <<openai, built, isBrowser, apiKey, params, allocVars, route, libVars>>

Settle(c) ==
  /\ pc[c] = "awaiting"
  /\ \E outcome \in Outcomes :
       LET rq == params[c][1] IN
       /\ settled' = [settled EXCEPT ![c] = Some(outcome)]
       /\ returned' = [returned EXCEPT
            ![c] = Some(AfterAwait(outcome, rq.salesPrice, rq.targetPct, rq.items))]
  /\ pc' = [pc EXCEPT ![c] = "done"]
  /\ UNCHANGED <<openai, built, isBrowser, apiKey, params, issued, allocVars, route, libVars>>

\* Release that also drops the module's client
ReleaseDropsClient(c) ==
  /\ pc[c] = "done"
  /\ pc' = [pc EXCEPT ![c] = "idle"]
  /\ params' = [params EXCEPT ![c] = None]
  /\ issued' = [issued EXCEPT ![c] = 0]
  /\ settled' = [settled EXCEPT ![c] = None]
  /\ returned' = [returned EXCEPT ![c] = None]
  /\ openai' = None
  /\ UNCHANGED <<built, isBrowser, apiKey, allocVars, route, libVars>>

\* the caller takes the result; the slot is free for the next invocation
Release(c) ==
  /\ pc[c] = "done"
  /\ pc' = [pc EXCEPT ![c] = "idle"]
  /\ params' = [params EXCEPT ![c] = None]
  /\ issued' = [issued EXCEPT ![c] = 0]
  /\ settled' = [settled EXCEPT ![c] = None]
  /\ returned' = [returned EXCEPT ![c] = None]
  /\ UNCHANGED <<openai, built, isBrowser, apiKey, allocVars, route, libVars>>

\* the environment sets or clears OPENAI_API_KEY
SetApiKey ==
  /\ apiKey' = ~apiKey
  /\ UNCHANGED <<openai, built, isBrowser, pc, params, issued, settled, returned, allocVars, route, libVars>>

Init ==
  /\ BuildInit
  /\ isBrowser \in BOOLEAN
  /\ apiKey \in BOOLEAN
  /\ items = <<>>
  /\ seen = [pp \in PricePoints |-> None]
  /\ repeated = FALSE
  /\ route = RouteIdle
  /\ ins = InsIdle
  /\ csv = CsvIdle

Next ==
  \/ \E c \in Calls : Invoke(c)
  \/ \E c \in Calls : Settle(c)
  \/ \E c \in Calls : Release(c)
  \/ SetApiKey

Spec == Init /\ [][Next]_vars

\* The event loop runs every continuation that is ready: the caller's
\* continuation after `await generateRecipeBuild(...)` runs once the function
\* has returned.  The settlement of the promise of create() is the service's
\* step: the code passes no timeout and races the promise against nothing, so
\* nothing in the program forces it.
FairSpec == Spec /\ \A c \in Calls : WF_vars(Release(c))

(***************************************************************************)
(* A caller of simpleOptimize: it keeps one ingredient list and calls the  *)
(* allocator on it, at any price point, any number of times.               *)
(***************************************************************************)
CallOptimize(pp) ==
  \E mem \in {RunOptimize(Num(pp[1]), Num(pp[2]), items)} :
  /\ items' = mem.items
  /\ seen' = [seen EXCEPT ![pp] = Some([ret |-> OptimizeReturn(mem, Num(pp[1])), mem |-> mem])]
  /\ repeated' = (repeated \/ seen[pp] # None)
  /\ UNCHANGED <<buildVars, route, libVars>>

AllocInit ==
  /\ BuildInit
  /\ isBrowser = FALSE
  /\ apiKey = FALSE
  /\ \/ \E n \in 0..MaxItems :
          \E nm \in Namings(n), f \in [1..n -> ItemFields] : items = ItemList(n, nm, f)
     \/ items \in Scenarios
  /\ seen = [pp \in PricePoints |-> None]
  /\ repeated = FALSE
  /\ route = RouteIdle
  /\ ins = InsIdle
  /\ csv = CsvIdle

AllocNext == \E pp \in PricePoints : CallOptimize(pp)

AllocSpec == AllocInit /\ [][AllocNext]_vars

(***************************************************************************)
(* The optimize-recipe endpoint (POST).  A JSON value of the body is a     *)
(* record with one field, named after its type; a key that the body does   *)
(* not carry is None.                                                      *)
(***************************************************************************)
JNum(q) == [num |-> q]
JStr(s) == [str |-> s]
JArr(a) == [arr |-> a]

\* an element of the body's ingredients array
JIng(name, weight, lockedQty) == [name |-> name, weight |-> weight, lockedQty |-> lockedQty]

\* the body of a request that is not JSON: request.json() rejects
Malformed == [malformed |-> TRUE]

SalesPriceFields ==
  {None, Some(JStr("10")), Some(JNum(Num(-5))), Some(JNum(Num(0))), Some(JNum(Num(10)))}

TargetPctFields ==
  {None, Some(JNum(Num(0))), Some(JNum(RDiv(Num(1), Num(2)))), Some(JNum(Num(1))),
   Some(JNum(Num(30))), Some(JNum(Num(100))), Some(JNum(Num(101)))}

IngredientsFields ==
  {None,
   Some(JStr("Chicken")),
   Some(JArr(<<>>)),
   Some(JArr(<<JIng(Some(JStr("Chicken")), None, Some(JNum(Num(2))))>>)),
   Some(JArr(<<JIng(Some(JStr("Chicken")), Some(JNum(Num(1))), None),
               JIng(Some(JStr("Cheese")), None, None)>>)),
   Some(JArr(<<JIng(None, Some(JNum(Num(1))), None)>>)),
   Some(JArr(<<JIng(Some(JStr("Chicken")), Some(JStr("1")), None)>>))}

\* the strings of the model that match zod's cuid pattern
Cuids == {"ckopqwooh000001la8mbi2im9"}

RestaurantIdFields == {None, Some(JStr("ckopqwooh000001la8mbi2im9")), Some(JStr("42"))}

StrategyFields == {None, Some(JStr("lean")), Some(JNum(Num(1)))}

Bodies ==
  [salesPrice : SalesPriceFields, targetFoodCostPct : TargetPctFields,
   ingredients : IngredientsFields, restaurantId : RestaurantIdFields,
   strategy : StrategyFields]

\* zod: z.number(), z.string(), .optional()
ZNumber(f) == f # None /\ DOMAIN f[1] = {"num"}
ZString(f) == f # None /\ DOMAIN f[1] = {"str"}
ZOptionalNumber(f) == f = None \/ ZNumber(f)
ZOptionalString(f) == f = None \/ ZString(f)

ingredientSchema(j) ==
  /\ ZString(j.name)
  /\ ZOptionalNumber(j.weight)
  /\ ZOptionalNumber(j.lockedQty)

\* schema.parse(body) does not throw
SchemaAccepts(body) ==
  /\ ZNumber(body.salesPrice)
  /\ RGt(body.salesPrice[1].num, Num(0))
  /\ ZNumber(body.targetFoodCostPct)
  /\ ~RGt(Num(1), body.targetFoodCostPct[1].num)
  /\ ~RGt(body.targetFoodCostPct[1].num, Num(100))
  /\ body.ingredients # None
  /\ DOMAIN body.ingredients[1] = {"arr"}
  /\ \A i \in 1..Len(body.ingredients[1].arr) : ingredientSchema(body.ingredients[1].arr[i])
  /\ ZOptionalString(body.restaurantId)
  /\ body.restaurantId # None => body.restaurantId[1].str \in Cuids
  /\ ZOptionalString(body.strategy)

\* an optional number of the body as the optional number of the parsed value
Parsed(f) == IF f = None THEN None ELSE Some(f[1].num)

\* what schema.parse(body) returns for a body it accepts
SchemaParse(body) ==
  [salesPrice |-> body.salesPrice[1].num,
   targetFoodCostPct |-> body.targetFoodCostPct[1].num,
   ingredients |->
     [i \in 1..Len(body.ingredients[1].arr) |->
        LET j == body.ingredients[1].arr[i] IN
        [name |-> j.name[1].str, weight |-> Parsed(j.weight),
         lockedQty |-> Parsed(j.lockedQty)]],
   restaurantId |-> IF body.restaurantId = None THEN None ELSE Some(body.restaurantId[1].str),
   strategy |-> IF body.strategy = None THEN None ELSE Some(body.strategy[1].str)]

\* what prisma.inventoryItem.aggregate settles with: it rejects, or resolves
\* with _avg.unitPrice null (no rows) or a number
AggregateRejected == [kind |-> "rejected"]
AggregateResolved(unitPrice) == [kind |-> "resolved", unitPrice |-> unitPrice]
Aggregates ==
  {AggregateRejected, AggregateResolved(None)}
    \cup {AggregateResolved(Some(Num(p))) : p \in UnitCosts}

\* avg._avg.unitPrice || 0
UnitPriceOrZero(unitPrice) ==
  IF Truthy(unitPrice) THEN unitPrice[1] ELSE Num(0)

\* the response of the catch block without `{ status: 500 }`
ErrorResponseDefaultStatus == [status |-> 200, json |-> [error |-> "Failed to optimize recipe"]]

\* the response of the catch block
ErrorResponse == [status |-> 500, json |-> [error |-> "Failed to optimize recipe"]]

\* JSON.stringify of a number: NaN is written as null
JsonNumber(q) == IF IsNaN(q) THEN [null |-> TRUE] ELSE JNum(q)

\* NextResponse.json(result): a key whose value is undefined is left out
OkResponse(result) ==
  [status |-> 200,
   json |-> [ingredients |-> result.ingredients,
             totalCost |-> IF result.totalCost = None THEN None
                           ELSE Some(JsonNumber(result.totalCost[1])),
             costPercentage |-> JsonNumber(result.costPercentage),
             overBudget |-> result.overBudget]]

\* the arguments the endpoint hands to generateRecipeBuild
RouteRequest ==
  [salesPrice |-> route.req[1].salesPrice, targetPct |-> route.req[1].targetFoodCostPct,
   items |-> route.items]

\* lines 13-24: the body is read and validated
Post ==
  /\ route.pc = "idle"
  /\ \E body \in Bodies \cup {Malformed} :
       IF body = Malformed \/ ~SchemaAccepts(body)
       THEN route' = [route EXCEPT !.pc = "responded", !.body = Some(body),
                                   !.response = Some(ErrorResponse)]
       ELSE route' = [route EXCEPT !.pc = "lookup", !.body = Some(body),
                                   !.req = Some(SchemaParse(body))]
  /\ UNCHANGED <<buildVars, allocVars, libVars>>

\* lines 27-38: one turn of the loop, up to the settlement of its aggregate
Lookup ==
  /\ route.pc = "lookup"
  /\ Len(route.items) < Len(route.req[1].ingredients)
  /\ \E avg \in Aggregates :
       LET ing == route.req[1].ingredients[Len(route.items) + 1] IN
       IF avg.kind = "rejected"
       THEN route' = [route EXCEPT !.pc = "responded", !.lookups = @ + 1,
                                   !.response = Some(ErrorResponse)]
       ELSE route' = [route EXCEPT
              !.lookups = @ + 1,
              !.items = Append(@, [name |-> ing.name,
                                   averageUnitCost |-> UnitPriceOrZero(avg.unitPrice),
                                   weight |-> ing.weight, lockedQty |-> ing.lockedQty])]
  /\ UNCHANGED <<buildVars, allocVars, libVars>>

\* line 40: the loop is over, generateRecipeBuild is called
Build ==
  /\ route.pc = "lookup"
  /\ Len(route.items) = Len(route.req[1].ingredients)
  /\ InvokeWith(1, RouteRequest)
  /\ route' = [route EXCEPT !.pc = "build"]

\* line 47: generateRecipeBuild has returned, the result is the response
Respond ==
  /\ route.pc = "build"
  /\ pc[1] = "done"
  /\ route' = [route EXCEPT !.pc = "responded", !.response = Some(OkResponse(returned[1][1]))]
  /\ UNCHANGED <<buildVars, allocVars, libVars>>

RouteNext ==
  \/ Post
  \/ Lookup
  \/ Build
  \/ \E c \in Calls : Settle(c)
  \/ Respond

RouteSpec == Init /\ [][RouteNext]_vars

(***************************************************************************)
(* getAiInsights and analyzeCsvData.  A text is a sequence of atoms: a     *)
(* blank " ", a line break "\n", a mark ("-", ".", "Note:"), a digit or a  *)
(* word.                                                                   *)
(***************************************************************************)
IsSpace(a) == a \in {" ", "\n"}

RECURSIVE TrimStart(_)
TrimStart(t) ==
  IF t # <<>> /\ IsSpace(Head(t)) THEN TrimStart(Tail(t)) ELSE t

RECURSIVE TrimEnd(_)
TrimEnd(t) ==
  IF t # <<>> /\ IsSpace(t[Len(t)]) THEN TrimEnd(SubSeq(t, 1, Len(t) - 1)) ELSE t

\* text.trim()
TrimText(t) == TrimEnd(TrimStart(t))

\* text.startsWith(prefix)
StartsWith(t, prefix) ==
  Len(t) >= Len(prefix) /\ SubSeq(t, 1, Len(prefix)) = prefix

\* text.split('\n')
RECURSIVE Split(_)
Split(t) ==
  IF \A k \in 1..Len(t) : t[k] # "\n" THEN <<t>>
  ELSE LET k == CHOOSE k \in 1..Len(t) : t[k] = "\n" /\ \A h \in 1..(k - 1) : t[h] # "\n"
       IN  <<SubSeq(t, 1, k - 1)>> \o Split(SubSeq(t, k + 1, Len(t)))

\* list.slice(0, n)
Slice(list, n) == SubSeq(list, 1, IF n < Len(list) THEN n ELSE Len(list))

\* list.map(trim)
TrimAll(list) == [k \in 1..Len(list) |-> TrimText(list[k])]

\* the atom of the bullet character U+2022
Bullet == "(bullet)"

\* the number of a template literal, for the numbers of the model
NumText(q) ==
  CASE q = Num(5) -> "5"
    [] q = Num(35) -> "35"
    [] q = Num(40) -> "40"

\* Math.abs
RAbs(q) == IF RGt(Num(0), q) THEN RSub(Num(0), q) ELSE q

\* the FinancialMetrics records handed to getAiInsights
FinancialMetrics(revenue, netProfit, cogs, laborCost, revenueChange) ==
  [revenue |-> Num(revenue), netProfit |-> Num(netProfit), cogs |-> Num(cogs),
   laborCost |-> Num(laborCost), revenueChange |-> Num(revenueChange)]

\* a month with every warning, one with none, one with two
Metrics ==
  {FinancialMetrics(100, 5, 40, 35, -5),
   FinancialMetrics(100, 20, 30, 25, 3),
   FinancialMetrics(100, 20, 40, 25, -5)}

\* insights.push(...) when the condition holds
PushIf(cond, insights, insight) == IF cond THEN Append(insights, insight) ELSE insights

generateDefaultInsights(data) ==
  LET i1 == PushIf(RGt(RMul(data.revenue, RDiv(Num(1), Num(10))), data.netProfit), <<>>,
                   <<Bullet, " ", "Consider reviewing pricing strategy as net profit margin is below 10%">>)
      i2 == PushIf(RGt(data.cogs, Num(35)), i1,
                   <<Bullet, " ", "High COGS (", NumText(data.cogs),
                     "% of revenue). Review ingredient costs and portion sizes.">>)
      i3 == PushIf(RGt(data.laborCost, Num(30)), i2,
                   <<Bullet, " ", "Labor costs (", NumText(data.laborCost),
                     "% of revenue) are above industry average. Consider optimizing staff scheduling.">>)
      i4 == PushIf(RGt(Num(0), data.revenueChange), i3,
                   <<Bullet, " ", "Revenue decreased by ", NumText(RAbs(data.revenueChange)),
                     "% from last month. Investigate potential causes.">>)
      i5 == Append(i4, <<Bullet, " ", "Consider implementing daily specials to move inventory with lower turnover">>)
      i6 == Append(i5, <<Bullet, " ", "Review portion sizes and prep waste to reduce food costs">>)
  IN  Slice(i6, 5)

\* the content of the service's answer to getAiInsights
ContentBlank == <<" ", "\n", " ", " ">>
ContentNote == <<"Note:", " ", "estimates">>
ContentOne == <<" ", Bullet, " ", "Renegotiate", " ">>
ContentMixed ==
  <<"Note:", " ", "estimates", "\n", Bullet, " ", "Renegotiate", "\n", "\n", " ", "Upsell">>
ContentSeven ==
  <<"a", "\n", " ", "\n", "b", "\n", "c", "\n", " ", "Note:", "n", "\n", "d", " ", "\n", "e",
    "\n", "f", "\n", "g">>

InsightContents == {<<>>, ContentBlank, ContentNote, ContentOne, ContentMixed, ContentSeven}

InsightOutcomes ==
  {Rejected, Resolved(<<>>), Resolved(<<Choice(None)>>), Resolved(<<Choice(Some(Message(None)))>>)}
  \cup {Resolved(<<Choice(Some(Message(Some(t))))>>) : t \in InsightContents}

\* response.choices[0]?.message?.content
OptionalContent(response) ==
  IF Len(response.choices) = 0 THEN None
  ELSE IF response.choices[1].message = None THEN None
  ELSE response.choices[1].message[1].content

\* the filter of line 102
Usable(line) == Len(TrimText(line)) > 0 /\ ~StartsWith(TrimText(line), <<"Note:">>)

\* the usable lines without the limit of five
ExtractInsightsNoLimit(content) == TrimAll(SelectSeq(Split(content), Usable))

\* lines 100-104
ExtractInsights(content) == TrimAll(Slice(SelectSeq(Split(content), Usable), 5))

\* getAiInsights from the settlement of its await to its return
InsightsAfterAwait(outcome, data) ==
  IF outcome.kind = "rejected" THEN generateDefaultInsights(data)
  ELSE LET content == OptionalContent(outcome) IN
       IF content = None \/ content[1] = <<>> THEN generateDefaultInsights(data)
       ELSE IF Len(ExtractInsights(content[1])) > 0 THEN ExtractInsights(content[1])
       ELSE generateDefaultInsights(data)

\* getAiInsights obtaining the client as analyzeCsvData does
GetAiInsightsInitializes ==
  /\ ins.pc = "idle"
  /\ \E data \in Metrics, ctorThrows \in BOOLEAN :
       LET g == getOpenAIClient(openai, built, isBrowser, apiKey, ctorThrows) IN
       /\ openai' = g.handle
       /\ built' = g.built
       /\ IF g.client = None
          THEN ins' = [ins EXCEPT !.pc = "done", !.data = Some(data),
                                  !.result = Some(generateDefaultInsights(data))]
          ELSE ins' = [ins EXCEPT !.pc = "awaiting", !.data = Some(data), !.issued = @ + 1]
  /\ UNCHANGED <<isBrowser, apiKey, pc, params, issued, settled, returned, allocVars, route, csv>>

\* getAiInsights up to its await: the module's handle is read, never
\* getOpenAIClient
GetAiInsights ==
  /\ ins.pc = "idle"
  /\ \E data \in Metrics :
       IF openai = None
       THEN ins' = [ins EXCEPT !.pc = "done", !.data = Some(data),
                               !.result = Some(generateDefaultInsights(data))]
       ELSE ins' = [ins EXCEPT !.pc = "awaiting", !.data = Some(data), !.issued = @ + 1]
  /\ UNCHANGED <<buildVars, allocVars, route, csv>>

InsightsSettle ==
  /\ ins.pc = "awaiting"
  /\ \E outcome \in InsightOutcomes :
       ins' = [ins EXCEPT !.pc = "done", !.settled = Some(outcome),
                          !.result = Some(InsightsAfterAwait(outcome, ins.data[1]))]
  /\ UNCHANGED <<buildVars, allocVars, route, csv>>

\* the caller of getAiInsights takes the insights
InsightsRelease ==
  /\ ins.pc = "done"
  /\ ins' = InsIdle
  /\ UNCHANGED <<buildVars, allocVars, route, csv>>

\* createErrorResponse(message)
createErrorResponse(message) ==
  [analysis |-> message, insights |-> <<>>,
   stats |-> [totalRecords |-> 0, sampleSize |-> 0, fields |-> <<>>]]

\* a row of the parsed CSV: its keys and values, in order
Row == <<<<"name", "item">>, <<"quantity", "5">>>>

\* Object.keys(row || {})
Keys(row) == IF row = None THEN <<>> ELSE [k \in 1..Len(row[1]) |-> row[1][k][1]]

\* what the promise around papaparse's parse settles with: the executor
\* throws, or complete/error resolve it with data, errors and meta
ParseThrew == [kind |-> "threw", data |-> None, errors |-> None]
ParseResult(data, errors) == [kind |-> "resolved", data |-> data, errors |-> errors]
Rows(n) == [k \in 1..n |-> Row]
RowCounts == {0, 1, 50, 51}

ParseOutcomes ==
  {ParseThrew,
   ParseResult(Some(<<>>), Some(<<"Unable to read file">>)),
   ParseResult(Some(Rows(1)), Some(<<"Too few fields">>)),
   ParseResult(None, None)}
  \cup {ParseResult(Some(Rows(n)), Some(<<>>)) : n \in RowCounts}

\* the content of the service's answer to analyzeCsvData
AnalysisProse == <<"All", " ", "good">>
AnalysisList ==
  <<"#", " ", "Findings", "\n",
    " ", "-", " ", "Cut", " ", "waste", "\n",
    "1", ".", " ", "Buy", " ", "bulk", "\n",
    "-", " ", "\n",
    "-", " ", " ", "-", "\n",
    "2", "2", ".", "3">>
AnalysisEmptyItems == <<"-", " ", ".", "\n", "7", ".">>

AnalysisContents == {<<>>, AnalysisProse, AnalysisList, AnalysisEmptyItems}

CsvOutcomes ==
  {Rejected, Resolved(<<>>), Resolved(<<Choice(Some(Message(None)))>>)}
  \cup {Resolved(<<Choice(Some(Message(Some(t))))>>) : t \in AnalysisContents}

IsDigit(a) == a \in {"0", "1", "2", "3", "4", "5", "6", "7", "8", "9"}

\* line.match(/^\d+\./)
RECURSIVE MatchesNumbered(_, _)
MatchesNumbered(t, digits) ==
  IF t = <<>> THEN FALSE
  ELSE IF IsDigit(Head(t)) THEN MatchesNumbered(Tail(t), digits + 1)
  ELSE Head(t) = "." /\ digits > 0

\* the filter of line 311
IsListLine(line) ==
  StartsWith(TrimText(line), <<"-", " ">>) \/ MatchesNumbered(TrimText(line), 0)

\* line.replace(/^[-\d\.\s]+/, '')
RECURSIVE StripMarks(_)
StripMarks(t) ==
  IF t # <<>> /\ (Head(t) \in {"-", "."} \/ IsDigit(Head(t)) \/ IsSpace(Head(t)))
  THEN StripMarks(Tail(t))
  ELSE t

\* line.replace(...).trim()
CleanLine(line) == TrimText(StripMarks(line))

\* .filter(Boolean) on strings: the empty string goes
NonEmpty(t) == t # <<>>

\* lines 309-313
ExtractListItems(analysis) ==
  LET lines == SelectSeq(Split(analysis), IsListLine)
  IN  SelectSeq([k \in 1..Len(lines) |-> CleanLine(lines[k])], NonEmpty)

\* the sample size reported as the number of rows
AnalysisAfterAwaitWholeSample(outcome, data) ==
  IF outcome.kind = "rejected"
  THEN createErrorResponse(<<"Error analyzing CSV data: ", "(message)">>)
  ELSE LET content == OptionalContent(outcome)
           analysis == IF content = None \/ content[1] = <<>>
                       THEN <<"No analysis available">> ELSE content[1]
           found == ExtractListItems(analysis)
       IN  [analysis |-> analysis,
            insights |-> IF Len(found) > 0 THEN found
                         ELSE <<<<"No specific insights could be generated from the data">>>>,
            stats |-> [totalRecords |-> Len(data), sampleSize |-> Len(data),
                       fields |-> Keys(IF Len(data) > 0 THEN Some(data[1]) ELSE None)]]

\* analyzeCsvData from the settlement of the external call to its return
AnalysisAfterAwait(outcome, data) ==
  IF outcome.kind = "rejected"
  THEN createErrorResponse(<<"Error analyzing CSV data: ", "(message)">>)
  ELSE LET content == OptionalContent(outcome)
           analysis == IF content = None \/ content[1] = <<>>
                       THEN <<"No analysis available">> ELSE content[1]
           found == ExtractListItems(analysis)
           sampleData == Slice(data, IF 50 < Len(data) THEN 50 ELSE Len(data))
       IN  [analysis |-> analysis,
            insights |-> IF Len(found) > 0 THEN found
                         ELSE <<<<"No specific insights could be generated from the data">>>>,
            stats |-> [totalRecords |-> Len(data), sampleSize |-> Len(sampleData),
                       fields |-> Keys(IF Len(data) > 0 THEN Some(data[1]) ELSE None)]]

\* analyzeCsvData up to `await new Promise(...)`
AnalyzeCsvData ==
  /\ csv.pc = "idle"
  /\ \E ctorThrows \in BOOLEAN :
       LET g == getOpenAIClient(openai, built, isBrowser, apiKey, ctorThrows) IN
       /\ openai' = g.handle
       /\ built' = g.built
       /\ IF g.client = None
          THEN csv' = [csv EXCEPT
                 !.pc = "done",
                 !.result = Some(createErrorResponse(
                              <<"AI analysis is not available in this environment">>))]
          ELSE csv' = [csv EXCEPT !.pc = "parsing", !.client = g.client]
  /\ UNCHANGED <<isBrowser, apiKey, pc, params, issued, settled, returned, allocVars, route, ins>>

\* lines 220-304: the parse has settled; the external call is made when the
\* CSV has rows and no errors
CsvParsed ==
  /\ csv.pc = "parsing"
  /\ \E parsed \in ParseOutcomes :
       IF parsed.kind = "threw"
       THEN csv' = [csv EXCEPT
              !.pc = "done", !.parsed = Some(parsed),
              !.result = Some(createErrorResponse(<<"Error analyzing CSV data: ", "(message)">>))]
       ELSE IF parsed.errors # None /\ Len(parsed.errors[1]) > 0
       THEN csv' = [csv EXCEPT
              !.pc = "done", !.parsed = Some(parsed),
              !.result = Some(createErrorResponse(<<"CSV parsing error: ", parsed.errors[1][1]>>))]
       ELSE IF parsed.data = None \/ Len(parsed.data[1]) = 0
       THEN csv' = [csv EXCEPT
              !.pc = "done", !.parsed = Some(parsed),
              !.result = Some(createErrorResponse(<<"No valid data found in the CSV">>))]
       ELSE csv' = [csv EXCEPT !.pc = "awaiting", !.parsed = Some(parsed), !.issued = @ + 1]
  /\ UNCHANGED <<buildVars, allocVars, route, ins>>

\* lines 306-330: the external call has settled
CsvSettle ==
  /\ csv.pc = "awaiting"
  /\ \E outcome \in CsvOutcomes :
       csv' = [csv EXCEPT !.pc = "done", !.settled = Some(outcome),
                          !.result = Some(AnalysisAfterAwait(outcome, csv.parsed[1].data[1]))]
  /\ UNCHANGED <<buildVars, allocVars, route, ins>>

\* the caller of analyzeCsvData takes the result
CsvRelease ==
  /\ csv.pc = "done"
  /\ csv' = CsvIdle
  /\ UNCHANGED <<buildVars, allocVars, route, ins>>

\* one process serving insights, CSV analyses and a recipe build.  Of the recipe
\* build only the steps that touch the client handle or free the slot are
\* taken: its answer from the service changes nothing the other two read.
LibNext ==
  \/ GetAiInsights
  \/ InsightsSettle
  \/ InsightsRelease
  \/ AnalyzeCsvData
  \/ CsvParsed
  \/ CsvSettle
  \/ CsvRelease
  \/ Invoke(1)
  \/ Release(1)
  \/ SetApiKey

LibSpec == Init /\ [][LibNext]_vars




(***************************************************************************)
(* Properties.                                                             *)
(***************************************************************************)
Done(c) == pc[c] = "done"
Fallback(c) ==
  Some(simpleOptimize(params[c][1].salesPrice, params[c][1].targetPct, params[c][1].items))

\* texts that are not JSON
NotJson == {TextBlank, TextProse}

\* the ways the claim lists for the external call to fail
ServiceFailed(o) ==
  \/ o.kind = "rejected"
  \/ /\ o.kind = "resolved"
     /\ \/ Len(o.choices) = 0
        \/ o.choices[1].message = None
        \/ o.choices[1].message[1].content = None
        \/ o.choices[1].message[1].content[1] \in NotJson

\* the text the service answered invocation c with, "" when it sent none
AnswerText(c) ==
  IF settled[c] = None THEN ""
  ELSE LET o == settled[c][1] IN
       IF o.kind = "rejected" \/ Len(o.choices) = 0 THEN ""
       ELSE IF o.choices[1].message = None \/ o.choices[1].message[1].content = None THEN ""
       ELSE o.choices[1].message[1].content[1]

\* C1: when the external call fails (it rejects, it answers with no choices,
\* with no content, or with text that is not JSON), generateRecipeBuild returns
\* a value, and that value is simpleOptimize's result on the same arguments.
C1_FallbackOnFailure ==
  \A c \in Calls :
    (Done(c) /\ settled[c] # None /\ ServiceFailed(settled[c][1]))
      => (returned[c] # None /\ returned[c] = Fallback(c))

C1_Witness ==
  \E c \in Calls :
    /\ Done(c)
    /\ issued[c] = 1
    /\ AnswerText(c) = TextProse
    /\ returned[c] = Fallback(c)
    /\ Len(returned[c][1].ingredients[1]) = 3

\* C2: generateRecipeBuild always returns a structurally valid result: its
\* ingredients is a sequence of entries and its totalCost is a number; an
\* answer that is JSON of another shape is discarded for the allocator's result.
C2_AlwaysValidResult ==
  \A c \in Calls :
    Done(c) =>
      /\ returned[c][1].ingredients # None
      /\ returned[c][1].totalCost # None
      /\ (AnswerText(c) \in {TextNumber, TextArray, TextNoIngredients, TextNoTotal}
            => returned[c] = Fallback(c))

\* C3: an invocation that finds no client (in a browser, without an API key, or
\* when the construction throws) finishes at once with simpleOptimize's result
\* on its arguments and issues no external call.
C3_NoCallWithoutClient ==
  [][\A c \in Calls :
       (/\ pc[c] = "idle"
        /\ pc'[c] # "idle"
        /\ (isBrowser \/ (openai = None /\ ~apiKey) \/ openai' = None))
         => (/\ pc'[c] = "done"
             /\ issued'[c] = 0
             /\ returned'[c] =
                  Some(simpleOptimize(params'[c][1].salesPrice, params'[c][1].targetPct,
                                      params'[c][1].items)))]_vars

C3_Witness ==
  \E c \in Calls :
    /\ Done(c)
    /\ ~isBrowser
    /\ openai = None
    /\ issued[c] = 0
    /\ settled[c] = None
    /\ returned[c] = Fallback(c)

\* the results of the calls of simpleOptimize made so far on items
SeenPoints == {pp \in PricePoints : seen[pp] # None}
Ret(pp) == seen[pp][1].ret
Mem(pp) == seen[pp][1].mem
Entries(pp) == Ret(pp).ingredients[1]

\* C4: every input ingredient with lockedQty = q present has an entry of
\* quantity exactly q in the result, whatever q and its averageUnitCost are.
C4_LockedQuantityKept ==
  \A pp \in SeenPoints : \A i \in 1..Len(items) :
    items[i].lockedQty # None =>
      \E j \in 1..Len(Entries(pp)) :
        /\ Entries(pp)[j].name = items[i].name
        /\ Entries(pp)[j].quantity = items[i].lockedQty[1]

RECURSIVE SumCosts(_, _)
SumCosts(entries, n) ==
  IF n = 0 THEN Num(0) ELSE RAdd(SumCosts(entries, n - 1), entries[n].cost)

\* C5: totalCost of a result of simpleOptimize is the sum of the cost fields
\* of its entries.
C5_TotalIsSumOfCosts ==
  \A pp \in SeenPoints :
    Ret(pp).totalCost = Some(SumCosts(Entries(pp), Len(Entries(pp))))

C5_Witness ==
  \E pp \in SeenPoints :
    /\ Len(Entries(pp)) = 2
    /\ Len(Mem(pp).unlocked) = 1
    /\ RGt(Entries(pp)[1].cost, Num(0))
    /\ RGt(Entries(pp)[2].cost, Num(0))

\* costPercentage of r is r.totalCost / price * 100 (NaN when r has no totalCost)
PctMatches(r, price) ==
  LET tc == ToNumber(r.totalCost)
      cp == r.costPercentage
  IN  IF IsNaN(tc) THEN IsNaN(cp)
      ELSE /\ ~IsNaN(cp)
           /\ cp[1] * tc[2] * price[1] = tc[1] * 100 * price[2] * cp[2]

\* C6: in every result of simpleOptimize and of generateRecipeBuild (through
\* the fallback or through the service's answer) costPercentage is the result's
\* totalCost / the caller's salesPrice * 100, never the service's percentage.
C6_PercentageFromSalesPrice ==
  /\ \A c \in Calls : Done(c) => PctMatches(returned[c][1], params[c][1].salesPrice)
  /\ \A pp \in SeenPoints : PctMatches(Ret(pp), Num(pp[1]))

C6_Witness ==
  \E c \in Calls :
    /\ Done(c)
    /\ AnswerText(c) = TextOver
    /\ params[c][1].salesPrice = Num(10)
    /\ returned[c][1].totalCost = Some(Num(5))
    /\ returned[c][1].costPercentage = Num(50)

\* overBudget of r says r.totalCost > price * pct / 100
OverBudgetMatches(r, price, pct) ==
  LET tc == ToNumber(r.totalCost) IN
  r.overBudget <=>
    (~IsNaN(tc) /\ tc[1] * 100 * price[2] * pct[2] > price[1] * pct[1] * tc[2])

\* C7: in every result of simpleOptimize and of generateRecipeBuild, overBudget
\* is true exactly when the result's totalCost exceeds the caller's
\* salesPrice * targetFoodCostPct / 100.
C7_OverBudgetFromBudget ==
  /\ \A c \in Calls :
       Done(c) => OverBudgetMatches(returned[c][1], params[c][1].salesPrice,
                                    params[c][1].targetPct)
  /\ \A pp \in SeenPoints : OverBudgetMatches(Ret(pp), Num(pp[1]), Num(pp[2]))

C7_Witness ==
  /\ \E c \in Calls :
       /\ Done(c)
       /\ AnswerText(c) = TextOver
       /\ params[c][1].salesPrice = Num(10)
       /\ returned[c][1].overBudget
  /\ \E c \in Calls :
       /\ Done(c)
       /\ settled[c] = Some(Rejected)
       /\ returned[c][1].overBudget

DistinctNames(list) ==
  \A i, j \in 1..Len(list) : i # j => list[i].name # list[j].name

\* how many entries of the first forEach (the locked rule) a result holds
LockedCount(pp) == Len(Entries(pp)) - Len(Mem(pp).unlocked)

\* C8: when the input names are pairwise distinct, the result holds exactly one
\* entry per input name and no other, and each ingredient went through exactly
\* one of the two rules: its entry was pushed by the locked loop and it is not
\* in unlocked, or it is in unlocked once and its entry was pushed by the
\* unlocked loop.
C8_OneEntryPerName ==
  \A pp \in SeenPoints :
    DistinctNames(items) =>
      /\ Len(Entries(pp)) = Len(items)
      /\ \A j \in 1..Len(Entries(pp)) :
           \E i \in 1..Len(items) : items[i].name = Entries(pp)[j].name
      /\ \A i \in 1..Len(items) :
           LET at == {j \in 1..Len(Entries(pp)) : Entries(pp)[j].name = items[i].name}
               refs == {u \in 1..Len(Mem(pp).unlocked) : Mem(pp).unlocked[u] = i}
           IN  /\ Cardinality(at) = 1
               /\ \/ refs = {} /\ \A j \in at : j <= LockedCount(pp)
                  \/ Cardinality(refs) = 1 /\ \A j \in at : j > LockedCount(pp)

C8_Witness ==
  \E pp \in SeenPoints :
    /\ DistinctNames(items)
    /\ Len(items) = 2
    /\ LockedCount(pp) = 1
    /\ Mem(pp).unlocked = <<1>>

RECURSIVE LockedCostSum(_, _)
LockedCostSum(list, n) ==
  IF n = 0 THEN Num(0)
  ELSE RAdd(LockedCostSum(list, n - 1),
            IF list[n].lockedQty = None THEN Num(0)
            ELSE RMul(list[n].lockedQty[1], list[n].averageUnitCost))

\* the locked costs alone exceed the budget and some ingredient has no lockedQty
LockedOverBudget(pp) ==
  /\ RGt(LockedCostSum(items, Len(items)), Budget(Num(pp[1]), Num(pp[2])))
  /\ \E i \in 1..Len(items) : items[i].lockedQty = None

\* every unlocked ingredient with a positive share has a negative cost, and a
\* negative quantity when its averageUnitCost > 0
NegativeAllocations(pp) ==
  LET mem == Mem(pp)
      tw == TotalWeight(mem, Len(mem.unlocked))
  IN  \A u \in 1..Len(mem.unlocked) :
        LET ing == items[mem.unlocked[u]]
            e == Entries(pp)[LockedCount(pp) + u]
        IN  RGt(Share(mem, tw, ing), Num(0)) =>
              /\ RGt(Num(0), e.cost)
              /\ RGt(ing.averageUnitCost, Num(0)) => RGt(Num(0), e.quantity)

\* C9: when the locked costs alone exceed the budget and an unlocked ingredient
\* exists, simpleOptimize returns overBudget = true and gives every unlocked
\* ingredient with a positive share a negative cost (and a negative quantity
\* when its averageUnitCost > 0).
C9_LockedOverBudgetFlagged ==
  \A pp \in SeenPoints :
    LockedOverBudget(pp) => (Ret(pp).overBudget /\ NegativeAllocations(pp))

\* C10: simpleOptimize is pure: no call changes the list or the records it was
\* given, and a call with the arguments of an earlier call returns what the
\* earlier call returned, whatever calls were made in between.
C10_Pure ==
  [][/\ items' = items
     /\ \A pp \in PricePoints : seen[pp] # None => seen'[pp] = seen[pp]]_vars

C10_Witness ==
  /\ repeated
  /\ SeenPoints = PricePoints
  /\ Len(items) = 2
  /\ \E i \in 1..Len(items) : items[i].weight = None


\* C11: an execution of generateRecipeBuild calls the external service at most
\* once: an invocation that is waiting has issued exactly one call and has no
\* answer yet, and an invocation whose call failed is done, with that one call
\* and the allocator's result.
C11_AtMostOneCall ==
  \A c \in Calls :
    /\ issued[c] <= 1
    /\ pc[c] = "awaiting" => (issued[c] = 1 /\ settled[c] = None)
    /\ (settled[c] # None /\ ServiceFailed(settled[c][1]))
         => (Done(c) /\ issued[c] = 1 /\ returned[c] = Fallback(c))

C11_Witness ==
  \E c \in Calls :
    /\ Done(c)
    /\ settled[c] = Some(Rejected)
    /\ issued[c] = 1
    /\ returned[c] = Fallback(c)


\* C12: generateRecipeBuild bounds its wait on the external service: every
\* invocation that waits for the service eventually returns a result, even
\* if the service never responds.
C12_EventuallyReturns ==
  \A c \in Calls : (pc[c] = "awaiting") ~> (pc[c] = "done")


\* what belongs to invocation c alone
Own(c) == <<pc[c], params[c], issued[c], settled[c], returned[c]>>

\* a step of invocation c
Steps(c) == pc'[c] # pc[c]

\* C13 as stated: concurrent invocations of generateRecipeBuild share no
\* mutable state: no step of an invocation writes a variable of the module
\* that another invocation reads.
C13_NoSharedState ==
  [][(\E c \in Calls : Steps(c)) => (openai' = openai /\ built' = built)]_vars

\* C13, amended: the invocations share the module's client handle and nothing
\* else.  The handle is written only while it is null, and never goes back to
\* null or to another client; a step of one invocation leaves everything that
\* belongs to another invocation as it was; and the result of an invocation is
\* determined by its own arguments and, when it called the service, by its
\* own answer.
C13_SharedOnlyClientHandle ==
  [][/\ openai # None => openai' = openai
     /\ \A c, d \in Calls : (c # d /\ Steps(d)) => Own(c)' = Own(c)
     /\ \A c \in Calls :
          (Steps(c) /\ pc'[c] = "done") =>
            LET rq == params'[c][1] IN
            returned'[c] =
              Some(IF issued'[c] = 0
                   THEN simpleOptimize(rq.salesPrice, rq.targetPct, rq.items)
                   ELSE AfterAwait(settled'[c][1], rq.salesPrice, rq.targetPct, rq.items))
    ]_vars

\* two invocations wait for the service on the one client the module built
C13_Witness ==
  /\ \A c \in Calls : pc[c] = "awaiting"
  /\ openai # None
  /\ built = 1

\* An invocation that starts while the key is missing does not call the
\* service.  (It does when an earlier invocation has left a client behind.)
StartsWithoutKeyFallsBack ==
  [][\A c \in Calls : (pc[c] = "idle" /\ Steps(c) /\ ~apiKey) => pc'[c] = "done"]_vars


\* the posted body carries a sale price > 0 and a target percentage in (0, 100]
InDomain(body) ==
  /\ body # Malformed
  /\ ZNumber(body.salesPrice)
  /\ RGt(body.salesPrice[1].num, Num(0))
  /\ ZNumber(body.targetFoodCostPct)
  /\ RGt(body.targetFoodCostPct[1].num, Num(0))
  /\ ~RGt(body.targetFoodCostPct[1].num, Num(100))

\* the other keys of the posted body are as the schema wants them
OtherKeysValid(body) ==
  /\ body.ingredients # None
  /\ DOMAIN body.ingredients[1] = {"arr"}
  /\ \A i \in 1..Len(body.ingredients[1].arr) : ingredientSchema(body.ingredients[1].arr[i])
  /\ body.restaurantId = None \/ (ZString(body.restaurantId) /\ body.restaurantId[1].str \in Cuids)
  /\ ZOptionalString(body.strategy)

\* generateRecipeBuild runs only on a sale price > 0 and a target in (0, 100]
InvokedInDomain ==
  \A c \in Calls :
    params[c] # None =>
      /\ RGt(params[c][1].salesPrice, Num(0))
      /\ RGt(params[c][1].targetPct, Num(0))
      /\ ~RGt(params[c][1].targetPct, Num(100))

\* a body outside the domain is answered with the error response, and nothing
\* has been looked up or allocated for it
RejectedBeforeAllocation ==
  (route.body # None /\ ~InDomain(route.body[1])) =>
    /\ route.response = Some(ErrorResponse)
    /\ route.lookups = 0
    /\ \A c \in Calls : pc[c] = "idle" /\ returned[c] = None

\* C14: the optimize-recipe endpoint never invokes generateRecipeBuild with
\* salesPrice <= 0 or targetFoodCostPct outside (0, 100]; such a request gets
\* an error response before any allocation is computed; and every request
\* with salesPrice > 0 and targetFoodCostPct in (0, 100] passes the validation.
C14_ValidationMatchesDomain ==
  /\ InvokedInDomain
  /\ RejectedBeforeAllocation
  /\ (route.body # None /\ InDomain(route.body[1]) /\ OtherKeysValid(route.body[1]))
       => route.req # None


\* the u-th ingredient the function handled as unlocked, and its entry
UnlockedIng(pp, u) == items[Mem(pp).unlocked[u]]
UnlockedEntry(pp, u) == Entries(pp)[LockedCount(pp) + u]
UnlockedCount(pp) == Len(Mem(pp).unlocked)

\* the nominal budget minus all locked costs
Remaining(pp) == RSub(Budget(Num(pp[1]), Num(pp[2])), LockedCostSum(items, Len(items)))

\* an ingredient the function handles as unlocked
HandledUnlocked(ing) ==
  \/ ing.lockedQty = None
  \/ ing.lockedQty[1] = Num(0)
  \/ ing.averageUnitCost = Num(0)

\* the sum of the weights (absent: 0) of the first n ingredients of list that
\* are handled as unlocked
RECURSIVE UnlockedWeightSum(_, _)
UnlockedWeightSum(list, n) ==
  IF n = 0 THEN Num(0)
  ELSE RAdd(UnlockedWeightSum(list, n - 1),
            IF HandledUnlocked(list[n]) THEN Coalesce(list[n].weight, Num(0)) ELSE Num(0))

\* C15: every ingredient with lockedQty present is kept out of the weighted
\* allocation (it is not among the unlocked ingredients, so it gets no share
\* and its weight is not in totalWeight), and its entry has
\* cost = lockedQty * averageUnitCost.
C15_LockedRuleForEveryLockedQty ==
  \A pp \in SeenPoints : \A i \in 1..Len(items) :
    items[i].lockedQty # None =>
      /\ \A u \in 1..UnlockedCount(pp) : Mem(pp).unlocked[u] # i
      /\ DistinctNames(items) =>
           \A j \in 1..Len(Entries(pp)) :
             Entries(pp)[j].name = items[i].name =>
               Entries(pp)[j].cost = RMul(items[i].lockedQty[1], items[i].averageUnitCost)


\* the costs of a result, in order
Costs(r) == [j \in 1..Len(r.ingredients[1]) |-> r.ingredients[1][j].cost]

\* the costs the specification expects for its two scenarios at price 10, target 30
ScenarioCosts ==
  <<10, 30>> \in SeenPoints =>
    /\ items = ScenarioA =>
          Costs(Ret(<<10, 30>>)) = <<RDiv(Num(3), Num(2)), RDiv(Num(9), Num(10)), RDiv(Num(3), Num(5))>>
    /\ items = ScenarioB =>
          Costs(Ret(<<10, 30>>)) = <<Num(2), RDiv(Num(3), Num(5)), RDiv(Num(2), Num(5))>>

\* C16: when the weights of the ingredients handled as unlocked sum to
\* totalWeight > 0, the cost of each of them is
\* remainingBudget * (weight or 0) / totalWeight, remainingBudget being the
\* nominal budget minus all locked costs; the two scenarios of the
\* specification give 1.5/0.9/0.6 and 2/0.6/0.4.
C16_ProportionalShares ==
  /\ ScenarioCosts
  /\ \A pp \in SeenPoints :
       \E tw \in {UnlockedWeightSum(items, Len(items))}, rem \in {Remaining(pp)} :
         RGt(tw, Num(0)) =>
           \A u \in 1..UnlockedCount(pp) :
             RMul(UnlockedEntry(pp, u).cost, tw)
               = RMul(rem, Coalesce(UnlockedIng(pp, u).weight, Num(0)))

\* Scenario B has run: behind the locked cost of 2, weights 0.3 and 0.2 got
\* 0.6 and 0.4
C16_Witness ==
  /\ items = ScenarioB
  /\ <<10, 30>> \in SeenPoints
  /\ LockedCount(<<10, 30>>) = 1
  /\ UnlockedEntry(<<10, 30>>, 1).cost = RDiv(Num(3), Num(5))
  /\ UnlockedEntry(<<10, 30>>, 2).cost = RDiv(Num(2), Num(5))

\* Scenario A has run
ScenarioAReached ==
  /\ items = ScenarioA
  /\ <<10, 30>> \in SeenPoints
  /\ Costs(Ret(<<10, 30>>)) = <<RDiv(Num(3), Num(2)), RDiv(Num(9), Num(10)), RDiv(Num(3), Num(5))>>

\* all ingredients of the list carry the same positive weight
UniformPositiveWeights ==
  /\ Len(items) > 0
  /\ items[1].weight # None
  /\ RGt(items[1].weight[1], Num(0))
  /\ \A i \in 1..Len(items) : items[i].weight = items[1].weight

\* C17: when the weights of the ingredients handled as unlocked sum to 0 (all
\* absent or 0), or when no ingredient has a lockedQty and all N ingredients
\* carry the same positive weight, each ingredient handled as unlocked gets
\* cost = remainingBudget / N, N being their number.
C17_EvenSplit ==
  \A pp \in SeenPoints :
    \E tw \in {UnlockedWeightSum(items, Len(items))}, rem \in {Remaining(pp)} :
      (\/ tw = Num(0)
       \/ /\ \A i \in 1..Len(items) : items[i].lockedQty = None
          /\ UniformPositiveWeights)
        => \A u \in 1..UnlockedCount(pp) :
             RMul(UnlockedEntry(pp, u).cost, Num(UnlockedCount(pp))) = rem

\* an ingredient without weight and one of weight 0 got half of the budget each
C17_Witness ==
  \E pp \in SeenPoints :
    /\ UnlockedCount(pp) = 2
    /\ UnlockedIng(pp, 1).weight = None
    /\ UnlockedIng(pp, 2).weight = Some(Num(0))
    /\ UnlockedEntry(pp, 1).cost = UnlockedEntry(pp, 2).cost
    /\ RGt(UnlockedEntry(pp, 1).cost, Num(0))

\* two ingredients of the same positive weight and no lockedQty got half each
UniformSplitReached ==
  \E pp \in SeenPoints :
    /\ UnlockedCount(pp) = 2
    /\ UniformPositiveWeights
    /\ \A i \in 1..Len(items) : items[i].lockedQty = None
    /\ UnlockedEntry(pp, 1).cost = UnlockedEntry(pp, 2).cost
    /\ RGt(UnlockedEntry(pp, 1).cost, Num(0))


\* C18: an ingredient handled as unlocked whose weight is explicitly 0 has
\* cost 0 and quantity 0 in the result, for every input, the one where every
\* unlocked ingredient has weight 0 included.
C18_ZeroWeightGetsNothing ==
  \A pp \in SeenPoints : \A u \in 1..UnlockedCount(pp) :
    UnlockedIng(pp, u).weight = Some(Num(0)) =>
      /\ UnlockedEntry(pp, u).cost = Num(0)
      /\ UnlockedEntry(pp, u).quantity = Num(0)

\* the same, for the inputs where some unlocked ingredient has a positive weight
ZeroWeightBesidePositive ==
  \A pp \in SeenPoints :
    RGt(UnlockedWeightSum(items, Len(items)), Num(0)) =>
      \A u \in 1..UnlockedCount(pp) :
        UnlockedIng(pp, u).weight = Some(Num(0)) =>
          /\ UnlockedEntry(pp, u).cost = Num(0)
          /\ UnlockedEntry(pp, u).quantity = Num(0)

\* the list with every absent weight written as 0
ZeroFilled(list) ==
  [i \in 1..Len(list) |->
     [list[i] EXCEPT !.weight = IF @ = None THEN Some(Num(0)) ELSE @]]

\* writing every absent weight as 0 leaves the result as it was
AbsentIsZero ==
  \A pp \in SeenPoints :
    Ret(pp) = simpleOptimize(Num(pp[1]), Num(pp[2]), ZeroFilled(items))

\* C19: an absent weight is not a weight of 0: when some ingredients handled
\* as unlocked carry positive weights and others have no weight, those without
\* weight still get a share of the remaining budget (a cost other than 0 when
\* the remaining budget is not 0), the same for each of them.
C19_AbsentWeightStillShares ==
  \A pp \in SeenPoints :
    (RGt(UnlockedWeightSum(items, Len(items)), Num(0)) /\ Remaining(pp) # Num(0)) =>
      \A u \in 1..UnlockedCount(pp) :
        UnlockedIng(pp, u).weight = None => UnlockedEntry(pp, u).cost # Num(0)

\* what an ingredient handled as unlocked is owed: cost * d = Remaining * n for
\* its share n / d
OwedShare(pp, u, cost) ==
  \E tw \in {UnlockedWeightSum(items, Len(items))} :
    IF RGt(tw, Num(0))
    THEN RMul(cost, tw) = RMul(Remaining(pp), Coalesce(UnlockedIng(pp, u).weight, Num(0)))
    ELSE RMul(cost, Num(UnlockedCount(pp))) = Remaining(pp)

\* C20: an ingredient handled as unlocked with averageUnitCost = 0 has
\* quantity 0 and cost = remainingBudget * share in the result, that cost is
\* part of totalCost, and no number of the result is NaN.
C20_ZeroUnitCostKeepsAllocation ==
  \A pp \in SeenPoints : \A u \in 1..UnlockedCount(pp) :
    UnlockedIng(pp, u).averageUnitCost = Num(0) =>
      /\ UnlockedEntry(pp, u).quantity = Num(0)
      /\ ~IsNaN(UnlockedEntry(pp, u).cost)
      /\ OwedShare(pp, u, UnlockedEntry(pp, u).cost)
      /\ Ret(pp).totalCost = Some(SumCosts(Entries(pp), Len(Entries(pp))))
      /\ ~IsNaN(Ret(pp).totalCost[1])
      /\ ~IsNaN(Ret(pp).costPercentage)

\* Scenario C: an unlocked ingredient of unit cost 0 beside a priced one has
\* quantity 0 and a cost above 0
C20_Witness ==
  \E pp \in SeenPoints :
    /\ UnlockedCount(pp) = 2
    /\ UnlockedIng(pp, 1).averageUnitCost = Num(0)
    /\ UnlockedIng(pp, 2).averageUnitCost = Num(2)
    /\ UnlockedEntry(pp, 1).quantity = Num(0)
    /\ RGt(UnlockedEntry(pp, 1).cost, Num(0))
    /\ RGt(Ret(pp).totalCost[1], UnlockedEntry(pp, 2).cost)


\* the indices of the ingredients handled as locked, and of those handled as
\* unlocked, each in input order
Indices == [i \in 1..Len(items) |-> i]
IsLockedIndex(i) == ~HandledUnlocked(items[i])
IsUnlockedIndex(i) == HandledUnlocked(items[i])
LockedIndices == SelectSeq(Indices, IsLockedIndex)
UnlockedIndices == SelectSeq(Indices, IsUnlockedIndex)

\* the index of the input ingredient that entry j of a result belongs to
InputOf == LockedIndices \o UnlockedIndices

\* C21: when every input ingredient is handled as locked, nothing is allocated
\* by weight (the result holds the locked entries only, and no number of it
\* is NaN or the outcome of a division by the empty count), totalCost is the
\* sum of the locked costs, overBudget is true exactly when that sum exceeds
\* the nominal budget, and a negative remaining budget still yields a result.
C21_AllLocked ==
  \A pp \in SeenPoints :
    (\A i \in 1..Len(items) : IsLockedIndex(i)) =>
      \E sum \in {LockedCostSum(items, Len(items))} :
        /\ Mem(pp).unlocked = <<>>
        /\ Ret(pp).ingredients # None
        /\ Len(Entries(pp)) = Len(items)
        /\ \A j \in 1..Len(Entries(pp)) :
             /\ Entries(pp)[j].quantity = items[j].lockedQty[1]
             /\ Entries(pp)[j].cost = RMul(items[j].lockedQty[1], items[j].averageUnitCost)
        /\ Ret(pp).totalCost = Some(sum)
        /\ Ret(pp).overBudget <=> RGt(sum, Budget(Num(pp[1]), Num(pp[2])))
        /\ ~IsNaN(Ret(pp).costPercentage)
        /\ Mem(pp).remainingBudget = RSub(Budget(Num(pp[1]), Num(pp[2])), sum)

\* two locked ingredients cost more than the budget: overBudget, and the
\* remaining budget is below 0
C21_Witness ==
  \E pp \in SeenPoints :
    /\ Len(items) = 2
    /\ \A i \in 1..Len(items) : IsLockedIndex(i)
    /\ Ret(pp).overBudget
    /\ RGt(Num(0), Mem(pp).remainingBudget)
    /\ Len(Entries(pp)) = 2

\* every ingredient is locked and the budget covers them
AllLockedWithinBudget ==
  \E pp \in SeenPoints :
    /\ Len(items) > 0
    /\ \A i \in 1..Len(items) : IsLockedIndex(i)
    /\ ~Ret(pp).overBudget

\* C22: in the result of simpleOptimize the entries of the ingredients handled
\* as locked come first, in input order, and the entries of those handled as
\* unlocked follow, in input order.
C22_LockedFirstInInputOrder ==
  \E locked \in {LockedIndices}, unlocked \in {UnlockedIndices} :
    \A pp \in SeenPoints :
      \E entries \in {Entries(pp)} :
        /\ Len(entries) = Len(locked) + Len(unlocked)
        /\ Mem(pp).unlocked = unlocked
        /\ \A j \in 1..Len(entries) : entries[j].name = items[(locked \o unlocked)[j]].name
        /\ \A j \in 1..Len(locked) : entries[j].quantity = items[locked[j]].lockedQty[1]

\* an unlocked ingredient before a locked one in the input, after it in the result
C22_Witness ==
  \E pp \in SeenPoints :
    /\ Len(items) = 2
    /\ DistinctNames(items)
    /\ IsUnlockedIndex(1)
    /\ IsLockedIndex(2)
    /\ Entries(pp)[1].name = items[2].name
    /\ Entries(pp)[2].name = items[1].name

\* two unlocked ingredients of different names keep their order
UnlockedOrderKept ==
  \E pp \in SeenPoints :
    /\ Len(items) = 2
    /\ DistinctNames(items)
    /\ UnlockedIndices = <<1, 2>>
    /\ Entries(pp)[1].name = items[1].name
    /\ Entries(pp)[2].name = items[2].name


\* the sum of the costs of the entries from..to of a result
RECURSIVE CostsFromTo(_, _, _)
CostsFromTo(entries, from, to) ==
  IF from > to THEN Num(0)
  ELSE RAdd(CostsFromTo(entries, from, to - 1), entries[to].cost)

\* C23: whenever at least one ingredient is handled as unlocked, the unlocked
\* entries together get the whole remaining budget (their shares sum to 1), so
\* totalCost is the nominal budget and overBudget is false, whatever the
\* locked costs are; overBudget is true only when no ingredient is handled as
\* unlocked.
C23_UnlockedAbsorbBudget ==
  \E someUnlocked \in {\E i \in 1..Len(items) : IsUnlockedIndex(i)} :
    \A pp \in SeenPoints :
      \E ret \in {Ret(pp)} :
        /\ someUnlocked =>
             /\ CostsFromTo(ret.ingredients[1], LockedCount(pp) + 1, Len(ret.ingredients[1]))
                  = Remaining(pp)
             /\ ret.totalCost = Some(Budget(Num(pp[1]), Num(pp[2])))
             /\ ~ret.overBudget
        /\ ret.overBudget => ~someUnlocked

\* one ingredient locked above the budget, one unlocked with a cost below 0
C23_Witness ==
  \E pp \in SeenPoints :
    /\ Len(LockedIndices) = 1
    /\ Len(UnlockedIndices) = 1
    /\ RGt(LockedCostSum(items, Len(items)), Budget(Num(pp[1]), Num(pp[2])))
    /\ RGt(Num(0), UnlockedEntry(pp, 1).cost)
    /\ Ret(pp).totalCost = Some(Budget(Num(pp[1]), Num(pp[2])))
    /\ ~Ret(pp).overBudget

\* two unlocked ingredients of weights 1 and 3 share the budget
WeightedPairReached ==
  \E pp \in SeenPoints :
    /\ UnlockedIndices = <<1, 2>>
    /\ items[1].weight = Some(Num(1))
    /\ items[2].weight = Some(Num(3))
    /\ Ret(pp).totalCost = Some(Budget(Num(pp[1]), Num(pp[2])))

\* lockedQty and averageUnitCost are both present and other than 0
BothNonZero(ing) ==
  /\ ing.lockedQty # None
  /\ ing.lockedQty[1] # Num(0)
  /\ ing.averageUnitCost # Num(0)

\* the quantity the allocation gives for a cost: cost / averageUnitCost, 0
\* without a unit cost
FromAllocation(ing, e) ==
  IF ing.averageUnitCost = Num(0) THEN e.quantity = Num(0)
  ELSE RMul(e.quantity, ing.averageUnitCost) = e.cost

\* C24: simpleOptimize handles an ingredient as locked if and only if its
\* lockedQty and its averageUnitCost are both present and other than 0; an
\* ingredient with lockedQty = 0, or with lockedQty > 0 and averageUnitCost =
\* 0, is in the unlocked group, takes its share of the weighted allocation,
\* and its quantity comes from the allocation, not from lockedQty.
C24_LockedIffBothNonZero ==
  \A pp \in SeenPoints :
    /\ \A i \in 1..Len(items) :
         BothNonZero(items[i]) <=> (\A u \in 1..UnlockedCount(pp) : Mem(pp).unlocked[u] # i)
    /\ \A u \in 1..UnlockedCount(pp) :
         UnlockedIng(pp, u).lockedQty # None =>
           /\ OwedShare(pp, u, UnlockedEntry(pp, u).cost)
           /\ FromAllocation(UnlockedIng(pp, u), UnlockedEntry(pp, u))

\* an ingredient locked at 2 without a unit cost got the budget and quantity 0
C24_Witness ==
  \E pp \in SeenPoints :
    /\ Len(items) = 1
    /\ items[1].lockedQty = Some(Num(2))
    /\ items[1].averageUnitCost = Num(0)
    /\ Mem(pp).unlocked = <<1>>
    /\ Entries(pp)[1].quantity = Num(0)
    /\ Entries(pp)[1].cost = Budget(Num(pp[1]), Num(pp[2]))

\* an ingredient with lockedQty 0 and a unit cost got a quantity from the budget
ZeroLockedQtyAllocated ==
  \E pp \in SeenPoints :
    /\ Len(items) = 1
    /\ items[1].lockedQty = Some(Num(0))
    /\ items[1].averageUnitCost = Num(2)
    /\ Mem(pp).unlocked = <<1>>
    /\ RGt(Entries(pp)[1].quantity, Num(0))

\* C25: for every entry of a result of simpleOptimize whose input ingredient
\* has averageUnitCost > 0, quantity * averageUnitCost = cost, for locked and
\* unlocked entries alike.
C25_QuantityTimesUnitCost ==
  \E inputOf \in {InputOf} :
    \A pp \in SeenPoints :
      \E entries \in {Entries(pp)} :
        /\ Len(entries) = Len(inputOf)
        /\ \A j \in 1..Len(entries) :
             RGt(items[inputOf[j]].averageUnitCost, Num(0)) =>
               RMul(entries[j].quantity, items[inputOf[j]].averageUnitCost) = entries[j].cost

\* a locked and an unlocked entry, both priced, both with cost above 0
C25_Witness ==
  \E pp \in SeenPoints :
    /\ Len(LockedIndices) = 1
    /\ Len(UnlockedIndices) = 1
    /\ \A i \in 1..Len(items) : RGt(items[i].averageUnitCost, Num(0))
    /\ RGt(Entries(pp)[1].cost, Num(0))
    /\ RGt(Entries(pp)[2].cost, Num(0))
    /\ RGt(Entries(pp)[2].quantity, Num(0))


\* the status-500 body of the claim
Failed500 == [status |-> 500, json |-> [error |-> "Failed to optimize recipe"]]

\* the posted body did not get through request.json() and schema.parse
ValidationFailed ==
  route.body # None /\ (route.body[1] = Malformed \/ ~SchemaAccepts(route.body[1]))

\* the request ended at a price lookup that rejected
LookupFailed ==
  /\ route.pc = "responded"
  /\ route.req # None
  /\ Len(route.items) < Len(route.req[1].ingredients)

\* C28: the optimize-recipe endpoint answers with the allocator's result or
\* with status 500 and {error: 'Failed to optimize recipe'}.  A failure of
\* body parsing, of the schema validation or of a price lookup gets the 500
\* response and no allocation (the allocator is not called, not even on the
\* ingredients already looked up); on a validation failure the inventory is
\* not queried either; the other response is the result generateRecipeBuild
\* returned for the validated request with every ingredient looked up.
C28_ResultOrError500 ==
  /\ route.pc = "responded" <=> route.response # None
  /\ ValidationFailed =>
       /\ route.response = Some(Failed500)
       /\ route.lookups = 0
       /\ \A c \in Calls : pc[c] = "idle" /\ issued[c] = 0 /\ returned[c] = None
  /\ LookupFailed =>
       /\ route.response = Some(Failed500)
       /\ route.lookups = Len(route.items) + 1
       /\ \A c \in Calls : pc[c] = "idle" /\ issued[c] = 0 /\ returned[c] = None
  /\ (route.response # None /\ route.response # Some(Failed500)) =>
       /\ ~ValidationFailed
       /\ ~LookupFailed
       /\ route.lookups = Len(route.req[1].ingredients)
       /\ params[1] = Some([salesPrice |-> route.req[1].salesPrice,
                            targetPct |-> route.req[1].targetFoodCostPct,
                            items |-> route.items])
       /\ returned[1] # None
       /\ route.response[1].status = 200
       /\ route.response[1].json.overBudget = returned[1][1].overBudget
       /\ route.response[1].json.ingredients = returned[1][1].ingredients

\* the second price lookup of a request rejected: 500, nothing allocated
C28_Witness ==
  /\ LookupFailed
  /\ route.lookups = 2
  /\ Len(route.items) = 1
  /\ route.response = Some(Failed500)
  /\ pc[1] = "idle"

\* a request answered with the result of generateRecipeBuild
RouteAnswered ==
  /\ route.response # None
  /\ route.response[1].status = 200
  /\ route.lookups = 2
  /\ route.response[1].json.ingredients # None


(***************************************************************************)
(* getAiInsights and analyzeCsvData                                        *)
(***************************************************************************)
\* a step in which getAiInsights is called
InsightsCalled == ins.pc = "idle" /\ ins'.pc # "idle"

\* a step in which analyzeCsvData or generateRecipeBuild is called
ClientRequested ==
  \/ csv.pc = "idle" /\ csv'.pc # "idle"
  \/ \E c \in Calls : pc[c] = "idle" /\ pc'[c] # "idle"

\* C26: getAiInsights never initializes the client.  A call of it leaves the
\* module's handle and the number of constructions as they were; while the
\* handle is null it returns generateDefaultInsights(data) at once and issues
\* no external call, whatever the API key; the handle is only ever set in a
\* call of analyzeCsvData or generateRecipeBuild, and an external call of
\* getAiInsights is in flight only with a constructed client.
C26_InsightsNeverInitialize ==
  [][/\ InsightsCalled =>
          /\ openai' = openai
          /\ built' = built
          /\ openai = None =>
                /\ ins'.pc = "done"
                /\ ins'.issued = 0
                /\ ins'.result = Some(generateDefaultInsights(ins'.data[1]))
          /\ ins'.issued > 0 => openai # None /\ built = 1
     /\ openai' # openai => ClientRequested /\ openai = None /\ built' = built + 1
    ]_vars

\* the defaults are returned on the server with the API key set, because no
\* other function has constructed the client yet
C26_Witness ==
  /\ ins.pc = "done"
  /\ ins.settled = None
  /\ apiKey
  /\ ~isBrowser
  /\ openai = None
  /\ ins.result = Some(generateDefaultInsights(ins.data[1]))

\* after a construction getAiInsights does call the service
InsightsCallIssued == ins.pc = "awaiting" /\ ins.issued = 1 /\ built = 1

\* a step in which analyzeCsvData calls getOpenAIClient, and what the call
\* returned to it
CsvCalled == csv.pc = "idle" /\ csv'.pc # "idle"
ReturnedClient == IF csv'.pc = "parsing" THEN csv'.client ELSE None

\* a step in which generateRecipeBuild calls getOpenAIClient; it goes on to the
\* service exactly when the call returned a client
BuildCalled(c) == pc[c] = "idle" /\ pc'[c] # "idle"
BuildGotClient(c) == pc'[c] = "awaiting"

\* the part of C27 that is about a constructed client: one construction per
\* process, and every later call returns that instance
SingleInstance ==
  /\ built' <= 1
  /\ openai # None => openai' = openai /\ built' = built
  /\ CsvCalled /\ openai # None => ReturnedClient = openai
  /\ \A c \in Calls : BuildCalled(c) /\ openai # None => BuildGotClient(c)

\* C27 as stated: the client is constructed at most once, later calls return
\* that instance, and while the API key is absent every call of
\* getOpenAIClient returns null and leaves the handle null.
C27_AbsentKeyAlwaysNull ==
  [][/\ SingleInstance
     /\ CsvCalled /\ ~apiKey => ReturnedClient = None /\ openai' = None
     /\ \A c \in Calls : BuildCalled(c) /\ ~apiKey => ~BuildGotClient(c) /\ openai' = None
    ]_vars

\* C27, amended: the client is constructed at most once per process and every
\* call after the construction returns that instance, whatever the API key is
\* by then; while the handle is null and the key is absent a call returns
\* null, constructs nothing and leaves the handle null; the key is read again
\* by every call that finds the handle null, so that on the server such a call
\* with the key set either constructs the client and returns it or, when the
\* constructor throws, returns null with the handle still null.
C27_ConstructedAtMostOnce ==
  [][/\ SingleInstance
     /\ CsvCalled /\ openai = None /\ ~apiKey =>
          ReturnedClient = None /\ openai' = None /\ built' = built
     /\ \A c \in Calls : BuildCalled(c) /\ openai = None /\ ~apiKey =>
          ~BuildGotClient(c) /\ openai' = None /\ built' = built
     /\ CsvCalled /\ openai = None /\ apiKey /\ ~isBrowser =>
          \/ ReturnedClient = None /\ openai' = None /\ built' = built
          \/ ReturnedClient # None /\ openai' = ReturnedClient /\ built' = built + 1
     /\ CsvCalled /\ isBrowser => ReturnedClient = None /\ openai' = openai
    ]_vars

\* two calls have returned the one client, the later one with the key gone
C27_Witness ==
  /\ built = 1
  /\ ~apiKey
  /\ csv.pc = "parsing"
  /\ csv.client = openai
  /\ pc[1] = "awaiting"

\* the answer getAiInsights got has no line to use
NoUsableLine(outcome) ==
  \/ outcome.kind = "rejected"
  \/ OptionalContent(outcome) = None
  \/ OptionalContent(outcome)[1] = <<>>
  \/ \A i \in 1..Len(Split(OptionalContent(outcome)[1])) :
        ~Usable(Split(OptionalContent(outcome)[1])[i])

\* C29: getAiInsights always ends with a value, a list of 1 to 5 non-blank
\* trimmed strings.  Without a client, on a rejected external call, on missing
\* or empty content and on content with no usable line the list is
\* generateDefaultInsights(data), which has 2 to 5 entries.
C29_OneToFiveInsights ==
  ins.pc = "done" =>
    /\ ins.result # None
    /\ \E r \in {ins.result[1]}, d \in {generateDefaultInsights(ins.data[1])} :
         /\ Len(r) \in 1..5
         /\ \A i \in 1..Len(r) : Len(r[i]) > 0 /\ TrimText(r[i]) = r[i]
         /\ Len(d) \in 2..5
         /\ ins.settled = None => ins.issued = 0 /\ r = d
         /\ ins.settled # None /\ NoUsableLine(ins.settled[1]) => r = d
         /\ ins.settled # None /\ ~NoUsableLine(ins.settled[1]) =>
              r = ExtractInsights(OptionalContent(ins.settled[1])[1])

\* the service answered with blank lines only and the month has every
\* warning: the six defaults are cut to five
C29_Witness ==
  /\ ins.pc = "done"
  /\ ins.settled # None
  /\ ins.settled[1].kind = "resolved"
  /\ OptionalContent(ins.settled[1]) = Some(ContentBlank)
  /\ ins.data = Some(FinancialMetrics(100, 5, 40, 35, -5))
  /\ Len(ins.result[1]) = 5
  /\ ins.result[1] = generateDefaultInsights(ins.data[1])

\* seven usable lines came back and five are returned
FiveOfSeven ==
  /\ ins.pc = "done"
  /\ ins.settled # None
  /\ OptionalContent(ins.settled[1]) = Some(ContentSeven)
  /\ ins.result[1] = <<<<"a">>, <<"b">>, <<"c">>, <<"d">>, <<"e">>>>

\* a month without warnings gets the two fixed defaults
TwoDefaults ==
  /\ ins.pc = "done"
  /\ ins.settled = None
  /\ Len(ins.result[1]) = 2

\* an error response: no insights and zero statistics
IsErrorResponse(r) ==
  /\ r.insights = <<>>
  /\ r.stats = [totalRecords |-> 0, sampleSize |-> 0, fields |-> <<>>]

\* the parse left nothing to analyse: it threw, reported errors or gave no row
NothingParsed(parsed) ==
  \/ parsed.kind = "threw"
  \/ parsed.errors # None /\ Len(parsed.errors[1]) > 0
  \/ parsed.data = None
  \/ Len(parsed.data[1]) = 0

Min(a, b) == IF a < b THEN a ELSE b

\* C30: analyzeCsvData always ends with a value.  Without a client, on a parse
\* error, on an empty data set and on a rejected external call the value is an
\* error response, with no insights and statistics {0, 0, []}; in the first
\* three cases no external call was made.  Otherwise the statistics count all
\* rows, the sample size is min(50, totalRecords) and there is at least one
\* non-empty insight.
C30_ErrorResponseOrAnalysis ==
  /\ csv.issued \in {0, 1}
  /\ csv.issued = 1 =>
       csv.client # None /\ csv.parsed # None /\ ~NothingParsed(csv.parsed[1])
  /\ csv.pc = "done" =>
       /\ csv.result # None
       /\ \E r \in {csv.result[1]} :
            /\ csv.client = None => IsErrorResponse(r) /\ csv.issued = 0
            /\ csv.parsed # None /\ NothingParsed(csv.parsed[1]) =>
                 IsErrorResponse(r) /\ csv.issued = 0
            /\ csv.settled # None /\ csv.settled[1].kind = "rejected" => IsErrorResponse(r)
            /\ csv.settled # None /\ csv.settled[1].kind = "resolved" =>
                 /\ r.stats.totalRecords = Len(csv.parsed[1].data[1])
                 /\ r.stats.sampleSize = Min(50, r.stats.totalRecords)
                 /\ r.stats.sampleSize > 0
                 /\ r.stats.fields = Keys(Some(csv.parsed[1].data[1][1]))
                 /\ Len(r.insights) > 0
                 /\ \A i \in 1..Len(r.insights) : Len(r.insights[i]) > 0
            /\ IsErrorResponse(r) \/ (csv.settled # None /\ csv.settled[1].kind = "resolved")

\* 51 rows were analysed on a sample of 50 and the prose answer gave the
\* fallback insight
C30_Witness ==
  /\ csv.pc = "done"
  /\ csv.settled # None
  /\ csv.settled[1].kind = "resolved"
  /\ csv.result[1].stats.totalRecords = 51
  /\ csv.result[1].stats.sampleSize = 50
  /\ csv.result[1].insights = <<<<"No specific insights could be generated from the data">>>>

\* the list items of an answer, with their marks stripped
ListItemsExtracted ==
  /\ csv.pc = "done"
  /\ csv.result[1].insights = <<<<"Cut", " ", "waste">>, <<"Buy", " ", "bulk">>>>

\* the external call was rejected and an error response returned
RejectedAnalysis ==
  /\ csv.pc = "done"
  /\ csv.issued = 1
  /\ IsErrorResponse(csv.result[1])

\* a parse error ended the call before the service was asked
ParseErrorAnswered ==
  /\ csv.pc = "done"
  /\ csv.client # None
  /\ csv.issued = 0
  /\ csv.result[1].analysis = <<"CSV parsing error: ", "Too few fields">>
=============================================================================
